---- MODULE Spec2Model ----
(***************************************************************************)
(* Model of the unowned-buf crate (src/src/lib.rs): the fixed-capacity     *)
(* read buffer UnownedReadBuffer<S>, the fixed-capacity write buffer       *)
(* UnownedWriteBuffer<S> and the UTF-8 helpers they use.                   *)
(*                                                                         *)
(* Bytes are naturals 0..255.  Rust slices are 0-based, TLA+ sequences are *)
(* 1-based: buffer[i] of the code is buffer[i + 1] here.  Every public     *)
(* operation is an operator that returns the SET of outcomes the call can  *)
(* have (one per behaviour of the external stream), and one action whose   *)
(* effect is one of these outcomes.                                        *)
(***************************************************************************)
EXTENDS Integers, Sequences, FiniteSets, TLC

\* Capacity of both buffers (the const generic S; the constructors demand >= 16).
S == 16
\* A stream read delivers 1..MaxChunk bytes, or everything that fits.
MaxChunk == 1
\* Largest "small" request / skip / consume / limit argument the actions try.
MaxReq == 2
\* The bytes a failing sink accepts per write call.
SinkChunk == 3

\* b'\n'
NL == 10

VARIABLES
    buffer,       \* UnownedReadBuffer.buffer : [u8; S]
    read_count,   \* UnownedReadBuffer.read_count
    fill_count,   \* UnownedReadBuffer.fill_count
    source,       \* the external Read: [data, pos, faulty, bulk]
    delivered,    \* history: bytes the calls handed to the caller (not kept while phase = "any")
    injected,     \* history: number of bytes copied in by copy_into_internal_buffer
    last,         \* the last read-buffer call: operation, arguments, result, state before
    w_buffer,     \* UnownedWriteBuffer.buffer : [u8; S]
    w_fill_count, \* UnownedWriteBuffer.fill_count
    sink,         \* the external Write: [received, faulty, chunk]
    accepted,     \* history: bytes the write buffer copied in from callers
    w_last,       \* the last write-buffer call
    phase,        \* what the caller is doing: "any", "raw", or the position of a driver loop
    mutex,        \* DuplexBufferedTcpStream: the holder of each Mutex (0: unlocked)
    thread        \* DuplexBufferedTcpStream: where each thread is, and its last result

rvars == <<buffer, read_count, fill_count, source, delivered, injected, last>>
wvars == <<w_buffer, w_fill_count, sink, accepted, w_last>>
dvars == <<mutex, thread>>
vars == <<buffer, read_count, fill_count, source, delivered, injected, last,
          w_buffer, w_fill_count, sink, accepted, w_last, phase, mutex, thread>>

(***************************************************************************)
(* Slices.                                                                 *)
(***************************************************************************)
Min(a, b) == IF a < b THEN a ELSE b

\* &s[from..to] (0-based, to exclusive)
Slice(s, from, to) == SubSeq(s, from + 1, to)

\* buf[at..at + data.len()].copy_from_slice(data)
CopyFromSlice(buf, at, data) ==
    [i \in 1..Len(buf) |->
        IF at < i /\ i <= at + Len(data) THEN data[i - at] ELSE buf[i]]

\* buf.copy_within(from..to, 0)
CopyWithin(buf, from, to) ==
    [i \in 1..Len(buf) |-> IF i <= to - from THEN buf[from + i] ELSE buf[i]]

Zeroes(n) == [i \in 1..n |-> 0]

(***************************************************************************)
(* The external source (impl Read).  A read into a destination of `space`  *)
(* bytes returns an error (a faulty source only: the error is transient,   *)
(* e.g. WouldBlock), 0 at end of stream or for an empty destination, or    *)
(* some number of bytes 1..min(space, remaining): a bulk source (such as   *)
(* the io::Cursor of the tests) always as many as fit, any other source    *)
(* (a socket) any of ChunkSizes.                                           *)
(***************************************************************************)
Remaining(src) == Len(src.data) - src.pos

ChunkSizes(m) == {k \in 1..m : k <= MaxChunk \/ k = m}

\* The results of one read.read(dst) with dst.len() = space: -1 is Err, else the count.
StreamRead(src, space) ==
    LET m == Min(space, Remaining(src))
    IN  (IF src.faulty THEN {-1} ELSE {})
        \cup (IF m = 0 THEN {0} ELSE IF src.bulk THEN {m} ELSE ChunkSizes(m))

(***************************************************************************)
(* UnownedReadBuffer: a buffer value is [buffer, read_count, fill_count].  *)
(***************************************************************************)
Available(b) == b.fill_count - b.read_count

AvailableSpace(b) == S - b.fill_count

InternalBuffer(b) == Slice(b.buffer, b.read_count, b.fill_count)

NewReadBuffer == [buffer |-> Zeroes(S), read_count |-> 0, fill_count |-> 0]

CompactDropsTail(b) ==
    IF b.read_count > 0
    THEN [b EXCEPT !.fill_count = b.fill_count - b.read_count, !.read_count = 0]
    ELSE b

\* A compact that moves the bytes and the read cursor but not fill_count.
CompactKeepsFill(b) ==
    IF b.read_count > 0
    THEN [buffer |-> IF b.read_count < b.fill_count
                     THEN CopyWithin(b.buffer, b.read_count, b.fill_count)
                     ELSE b.buffer,
          fill_count |-> b.fill_count,
          read_count |-> 0]
    ELSE b

\* compact()
Compact(b) ==
    IF b.read_count > 0
    THEN [buffer |-> IF b.read_count < b.fill_count
                     THEN CopyWithin(b.buffer, b.read_count, b.fill_count)
                     ELSE b.buffer,
          fill_count |-> b.fill_count - b.read_count,
          read_count |-> 0]
    ELSE b

\* A feed that does not compact first: behind a cursor at the end of the
\* array there is no room, and the stream read returns 0.
FeedWithoutCompact(b, src) ==
    { IF n = -1 THEN [b |-> b, src |-> src, got |-> "err"]
      ELSE IF n = 0 THEN [b |-> b, src |-> src, got |-> "false"]
      ELSE [b |-> [b EXCEPT
                     !.buffer = CopyFromSlice(b.buffer, b.fill_count,
                                    Slice(src.data, src.pos, src.pos + n)),
                     !.fill_count = b.fill_count + n],
            src |-> [src EXCEPT !.pos = src.pos + n],
            got |-> "true"]
    : n \in StreamRead(src, S - b.fill_count) }

\* A feed that, when the stream read fails, counts one byte of the
\* destination as filled.
FeedFillsOnError(b, src) ==
    LET c == Compact(b)
    IN  { IF n = -1
          THEN [b |-> [c EXCEPT !.fill_count = c.fill_count + 1], src |-> src,
                got |-> "err"]
          ELSE IF n = 0 THEN [b |-> c, src |-> src, got |-> "false"]
          ELSE [b |-> [c EXCEPT
                         !.buffer = CopyFromSlice(c.buffer, c.fill_count,
                                        Slice(src.data, src.pos, src.pos + n)),
                         !.fill_count = c.fill_count + n],
                src |-> [src EXCEPT !.pos = src.pos + n],
                got |-> "true"]
        : n \in StreamRead(src, S - c.fill_count) }

\* feed: the outcomes are [b, src, got], got being "true", "false" or "err".
Feed(b, src) ==
    LET c == Compact(b)
    IN  { IF n = -1 THEN [b |-> c, src |-> src, got |-> "err"]
          ELSE IF n = 0 THEN [b |-> c, src |-> src, got |-> "false"]
          ELSE [b |-> [c EXCEPT
                         !.buffer = CopyFromSlice(c.buffer, c.fill_count,
                                        Slice(src.data, src.pos, src.pos + n)),
                         !.fill_count = c.fill_count + n],
                src |-> [src EXCEPT !.pos = src.pos + n],
                got |-> "true"]
        : n \in StreamRead(src, S - c.fill_count) }

\* The outcome of a call: the buffer and source after it, the result
\* ("ok", "err": a stream error, "eof": UnexpectedEof, "invalid": InvalidData,
\* "panic"), the count returned, the bytes written to the caller's slice,
\* vector or string during the call, and the number of stream reads made.
Outcome(b, src, res, n, out, reads) ==
    [b |-> b, src |-> src, res |-> res, n |-> n, out |-> out, reads |-> reads]

ReadCopyKeepsFill(b, src, len, reads) ==
    LET available == Available(b)
    IN  IF available >= len
        THEN Outcome([b EXCEPT !.read_count = b.read_count + len], src, "ok", len,
                     Slice(b.buffer, b.read_count, b.read_count + len), reads)
        ELSE Outcome([b EXCEPT !.read_count = 0], src, "ok",
                     available, Slice(b.buffer, b.read_count, b.fill_count), reads)

\* A copy whose FULL READ rewinds both cursors when it takes the last byte
ReadCopyFullResets(b, src, len, reads) ==
    LET available == Available(b)
    IN  IF available > len
        THEN Outcome([b EXCEPT !.read_count = b.read_count + len], src, "ok", len,
                     Slice(b.buffer, b.read_count, b.read_count + len), reads)
        ELSE Outcome([b EXCEPT !.read_count = 0, !.fill_count = 0], src, "ok",
                     Min(available, len),
                     Slice(b.buffer, b.read_count, b.read_count + Min(available, len)),
                     reads)

\* The copy shared by try_read and read: FULL READ when the resident bytes
\* cover the request, else PARTIAL READ, which empties the buffer.
ReadCopy(b, src, len, reads) ==
    LET available == Available(b)
    IN  IF available >= len
        THEN Outcome([b EXCEPT !.read_count = b.read_count + len], src, "ok", len,
                     Slice(b.buffer, b.read_count, b.read_count + len), reads)
        ELSE Outcome([b EXCEPT !.read_count = 0, !.fill_count = 0], src, "ok",
                     available, Slice(b.buffer, b.read_count, b.fill_count), reads)

\* try_read(buffer) with buffer.len() = len
TryRead(b, src, len) ==
    IF len = 0 THEN {Outcome(b, src, "ok", 0, <<>>, 0)}
    ELSE IF Available(b) = 0 THEN {Outcome(b, src, "ok", 0, <<>>, 0)}
    ELSE {ReadCopy(b, src, len, 0)}

\* A read that goes to the stream whenever the resident bytes do not cover
\* the request.
ReadRefillsWhenShort(b, src, len) ==
    IF len = 0 THEN {Outcome(b, src, "ok", 0, <<>>, 0)}
    ELSE IF Available(b) < len
    THEN { IF f.got = "err" THEN Outcome(f.b, f.src, "err", 0, <<>>, 1)
           ELSE ReadCopy(f.b, f.src, len, 1)
         : f \in Feed(b, src) }
    ELSE {ReadCopy(b, src, len, 0)}

\* A read that tries the stream a second time when the first read fails.
ReadRetriesOnError(b, src, len) ==
    IF len = 0 THEN {Outcome(b, src, "ok", 0, <<>>, 0)}
    ELSE IF Available(b) = 0
    THEN UNION { IF f.got = "err"
                 THEN { IF g.got = "err" THEN Outcome(g.b, g.src, "err", 0, <<>>, 2)
                        ELSE IF g.got = "false" THEN Outcome(g.b, g.src, "ok", 0, <<>>, 2)
                        ELSE ReadCopy(g.b, g.src, len, 2)
                      : g \in Feed(f.b, f.src) }
                 ELSE IF f.got = "false" THEN {Outcome(f.b, f.src, "ok", 0, <<>>, 1)}
                 ELSE {ReadCopy(f.b, f.src, len, 1)}
               : f \in Feed(b, src) }
    ELSE {ReadCopy(b, src, len, 0)}

\* read(read, buffer) with buffer.len() = len
Read(b, src, len) ==
    IF len = 0 THEN {Outcome(b, src, "ok", 0, <<>>, 0)}
    ELSE IF Available(b) = 0
    THEN { IF f.got = "err" THEN Outcome(f.b, f.src, "err", 0, <<>>, 1)
           ELSE IF f.got = "false" THEN Outcome(f.b, f.src, "ok", 0, <<>>, 1)
           ELSE ReadCopy(f.b, f.src, len, 1)
         : f \in Feed(b, src) }
    ELSE {ReadCopy(b, src, len, 0)}

\* compact()
CompactOp(b, src) == {Outcome(Compact(b), src, "ok", 0, <<>>, 0)}

\* A skip that only advances the read cursor, also when it empties the buffer.
SkipWithoutRewind(b, src, amount) ==
    LET available == Available(b)
    IN  IF ~(available >= amount) THEN {Outcome(b, src, "panic", 0, <<>>, 0)}
        ELSE {Outcome([b EXCEPT !.read_count = b.read_count + amount], src, "ok", 0,
                      Slice(b.buffer, b.read_count, b.read_count + amount), 0)}

\* skip(amount)
Skip(b, src, amount) ==
    LET available == Available(b)
    IN  IF ~(available >= amount) THEN {Outcome(b, src, "panic", 0, <<>>, 0)}
        ELSE IF available = amount
        THEN {Outcome([b EXCEPT !.read_count = 0, !.fill_count = 0], src, "ok", 0,
                      Slice(b.buffer, b.read_count, b.read_count + amount), 0)}
        ELSE {Outcome([b EXCEPT !.read_count = b.read_count + amount], src, "ok", 0,
                      Slice(b.buffer, b.read_count, b.read_count + amount), 0)}

ConsumeUnchecked(b, src, amt) ==
    {Outcome([b EXCEPT !.read_count = b.read_count + amt], src, "ok", 0, <<>>, 0)}

\* usize arithmetic is modulo 2^w, w the pointer width of the target: 16 bits
\* here, the narrowest Rust supports.
UsizeModulus == 65536

\* usize::MAX
UsizeMax == UsizeModulus - 1

\* a + b in usize: the sums the build can produce.  Without overflow the sum;
\* with overflow -1 (the panic of a build that checks overflow, as debug
\* builds do) or the wrapped sum (a build that does not, as release builds).
UsizeAdd(a, b) ==
    IF a + b < UsizeModulus THEN {a + b} ELSE {-1, (a + b) % UsizeModulus}

\* consume(amt): the assertion and the assignment both add amt to read_count
Consume(b, src, amt) ==
    { IF sum = -1 \/ ~(sum <= b.fill_count)
      THEN Outcome(b, src, "panic", 0, <<>>, 0)
      ELSE Outcome([b EXCEPT !.read_count = sum], src, "ok", 0,
                   Slice(b.buffer, b.read_count, sum), 0)
    : sum \in UsizeAdd(b.read_count, amt) }

\* ensure_readable(read): n is 1 for Ok(true), 0 for Ok(false)
EnsureReadable(b, src) ==
    IF Available(b) > 0 THEN {Outcome(b, src, "ok", 1, <<>>, 0)}
    ELSE { IF f.got = "err" THEN Outcome(f.b, f.src, "err", 0, <<>>, 1)
           ELSE Outcome(f.b, f.src, "ok", IF f.got = "true" THEN 1 ELSE 0, <<>>, 1)
         : f \in Feed(b, src) }

\* A fill_buf that goes to the stream although bytes are resident.
FillBufAlwaysFeeds(b, src) ==
    { IF f.got = "err" THEN Outcome(f.b, f.src, "err", 0, <<>>, 1)
      ELSE Outcome(f.b, f.src, "ok", Available(f.b), <<>>, 1)
    : f \in Feed(b, src) }

\* fill_buf(read): n is the length of the slice returned; the slice is only lent,
\* nothing is handed over until consume.
FillBuf(b, src) ==
    IF Available(b) = 0
    THEN { IF f.got = "err" THEN Outcome(f.b, f.src, "err", 0, <<>>, 1)
           ELSE IF f.got = "false" THEN Outcome(f.b, f.src, "ok", 0, <<>>, 1)
           ELSE Outcome(f.b, f.src, "ok", Available(f.b), <<>>, 1)
         : f \in Feed(b, src) }
    ELSE {Outcome(b, src, "ok", Available(b), <<>>, 0)}

\* A read_into_internal_buffer that compacts before it reads, as feed does.
ReadIntoCompactsFirst(b, src) ==
    LET c == Compact(b)
    IN  IF AvailableSpace(c) = 0 THEN {Outcome(b, src, "panic", 0, <<>>, 0)}
        ELSE { IF n = -1 THEN Outcome(c, src, "err", 0, <<>>, 1)
               ELSE Outcome([c EXCEPT
                               !.buffer = CopyFromSlice(c.buffer, c.fill_count,
                                              Slice(src.data, src.pos, src.pos + n)),
                               !.fill_count = c.fill_count + n],
                            [src EXCEPT !.pos = src.pos + n], "ok", n, <<>>, 1)
             : n \in StreamRead(src, S - c.fill_count) }

\* read_into_internal_buffer(read)
ReadIntoInternalBuffer(b, src) ==
    IF AvailableSpace(b) = 0 THEN {Outcome(b, src, "panic", 0, <<>>, 0)}
    ELSE { IF n = -1 THEN Outcome(b, src, "err", 0, <<>>, 1)
           ELSE Outcome([b EXCEPT
                           !.buffer = CopyFromSlice(b.buffer, b.fill_count,
                                          Slice(src.data, src.pos, src.pos + n)),
                           !.fill_count = b.fill_count + n],
                        [src EXCEPT !.pos = src.pos + n], "ok", n, <<>>, 1)
         : n \in StreamRead(src, S - b.fill_count) }

\* A copy_into_internal_buffer that counts the space before read_count as free.
CopyIntoCountsReadSpace(b, src, data) ==
    LET space == S - Available(b)
        needed == Len(data)
    IN  IF ~(space >= needed) THEN {Outcome(b, src, "panic", 0, <<>>, 0)}
        ELSE {Outcome([b EXCEPT
                         !.buffer = CopyFromSlice(b.buffer, b.fill_count, data),
                         !.fill_count = b.fill_count + needed],
                      src, "ok", 0, <<>>, 0)}

\* copy_into_internal_buffer(data)
CopyIntoInternalBuffer(b, src, data) ==
    LET space == AvailableSpace(b)
        needed == Len(data)
    IN  IF ~(space >= needed) THEN {Outcome(b, src, "panic", 0, <<>>, 0)}
        ELSE {Outcome([b EXCEPT
                         !.buffer = CopyFromSlice(b.buffer, b.fill_count, data),
                         !.fill_count = b.fill_count + needed],
                      src, "ok", 0, <<>>, 0)}

(***************************************************************************)
(* Operations that loop over feed.  A configuration of a loop is an        *)
(* Outcome whose res is "run" and whose n is the local variable `count`;   *)
(* XBody is one iteration of the loop of X on one configuration, XLoop     *)
(* runs the iterations of a set of configurations to their returns.        *)
(***************************************************************************)
Running(cs) == {c \in cs : c.res = "run"}
Returned(cs) == {c \in cs : c.res # "run"}

\* A read_exact that takes the end of the stream for success and returns
\* with out partly filled.
ReadExactEofIsOk(c, len) ==
    LET b == c.b
        rem == len - Len(c.out)
        available == Available(b)
    IN  IF available >= rem
        THEN {Outcome([b EXCEPT !.read_count = b.read_count + rem], c.src, "ok", 0,
                      c.out \o Slice(b.buffer, b.read_count, b.read_count + rem),
                      c.reads)}
        ELSE LET out == c.out \o Slice(b.buffer, b.read_count, b.read_count + available)
                 e == [b EXCEPT !.read_count = 0, !.fill_count = 0]
             IN  { Outcome(f.b, f.src,
                           IF f.got = "err" THEN "err"
                           ELSE IF f.got = "false" THEN "ok" ELSE "run",
                           0, out, c.reads + 1)
                 : f \in Feed(e, c.src) }

\* read_exact, one iteration of its loop; len is buffer.len() of the call.
ReadExactBody(c, len) ==
    LET b == c.b
        rem == len - Len(c.out)
        available == Available(b)
    IN  IF available >= rem
        THEN {Outcome([b EXCEPT !.read_count = b.read_count + rem], c.src, "ok", 0,
                      c.out \o Slice(b.buffer, b.read_count, b.read_count + rem),
                      c.reads)}
        ELSE LET out == c.out \o Slice(b.buffer, b.read_count, b.read_count + available)
                 e == [b EXCEPT !.read_count = 0, !.fill_count = 0]
             IN  { Outcome(f.b, f.src,
                           IF f.got = "err" THEN "err"
                           ELSE IF f.got = "false" THEN "eof" ELSE "run",
                           0, out, c.reads + 1)
                 : f \in Feed(e, c.src) }

RECURSIVE ReadExactLoop(_, _)
ReadExactLoop(cs, len) ==
    IF cs = {} THEN {}
    ELSE LET next == UNION {ReadExactBody(c, len) : c \in cs}
         IN  Returned(next) \cup ReadExactLoop(Running(next), len)

\* read_exact(read, buffer) with buffer.len() = len
ReadExact(b, src, len) ==
    IF len = 0 THEN {Outcome(b, src, "ok", 0, <<>>, 0)}
    ELSE IF Available(b) = 0
    THEN LET first == { Outcome(f.b, f.src,
                                IF f.got = "err" THEN "err"
                                ELSE IF f.got = "false" THEN "eof" ELSE "run",
                                0, <<>>, 1)
                      : f \in Feed(b, src) }
         IN  Returned(first) \cup ReadExactLoop(Running(first), len)
    ELSE ReadExactLoop({Outcome(b, src, "run", 0, <<>>, 0)}, len)

\* The index (0-based, relative to the slice) of the first occurrence of byte
\* in s, or -1: the `for idx in ..` scans of read_until, read_until_limit, read_line.
FirstIndexOf(s, byte) ==
    IF \E i \in 1..Len(s) : s[i] = byte
    THEN (CHOOSE i \in 1..Len(s) : s[i] = byte /\ \A j \in 1..(i - 1) : s[j] # byte) - 1
    ELSE -1

\* The first feed shared by the scanning operations: Ok(0) at end of stream.
FirstFeed(b, src) ==
    IF Available(b) = 0
    THEN { Outcome(f.b, f.src,
                   IF f.got = "err" THEN "err"
                   ELSE IF f.got = "false" THEN "ok" ELSE "run",
                   0, <<>>, 1)
         : f \in Feed(b, src) }
    ELSE {Outcome(b, src, "run", 0, <<>>, 0)}

\* The feed that ends an iteration: a stream error, Ok(count) at end of
\* stream, or another iteration.
NextFeed(b, src, count, out, reads) ==
    { Outcome(f.b, f.src,
              IF f.got = "err" THEN "err"
              ELSE IF f.got = "false" THEN "ok" ELSE "run",
              IF f.got = "err" THEN 0 ELSE count, out, reads + 1)
    : f \in Feed(b, src) }

\* A read_until that moves past the delimiter without appending it.
ReadUntilDropsDelimiter(c, byte) ==
    LET b == c.b
        idx == FirstIndexOf(InternalBuffer(b), byte)
    IN  IF idx >= 0
        THEN LET to_push == Slice(b.buffer, b.read_count, b.read_count + idx)
             IN  {Outcome([b EXCEPT !.read_count = b.read_count + idx + 1],
                          c.src, "ok", c.n + Len(to_push), c.out \o to_push, c.reads)}
        ELSE LET to_push == InternalBuffer(b)
             IN  NextFeed([b EXCEPT !.read_count = 0, !.fill_count = 0], c.src,
                          c.n + Len(to_push), c.out \o to_push, c.reads)

\* read_until, one iteration of its loop
ReadUntilBody(c, byte) ==
    LET b == c.b
        idx == FirstIndexOf(InternalBuffer(b), byte)
    IN  IF idx >= 0
        THEN LET to_push == Slice(b.buffer, b.read_count, b.read_count + idx + 1)
             IN  {Outcome([b EXCEPT !.read_count = b.read_count + Len(to_push)],
                          c.src, "ok", c.n + Len(to_push), c.out \o to_push, c.reads)}
        ELSE LET to_push == InternalBuffer(b)
             IN  NextFeed([b EXCEPT !.read_count = 0, !.fill_count = 0], c.src,
                          c.n + Len(to_push), c.out \o to_push, c.reads)

RECURSIVE ReadUntilLoop(_, _)
ReadUntilLoop(cs, byte) ==
    IF cs = {} THEN {}
    ELSE LET next == UNION {ReadUntilBody(c, byte) : c \in cs}
         IN  Returned(next) \cup ReadUntilLoop(Running(next), byte)

\* read_until(read, byte, buf)
ReadUntil(b, src, byte) ==
    LET first == FirstFeed(b, src)
    IN  Returned(first) \cup ReadUntilLoop(Running(first), byte)

\* A read_until_limit that takes the index of the delimiter in the scanned
\* slice for its index in the array.
ReadUntilLimitAbsoluteIndex(c, byte, limit) ==
    LET b == c.b
        count == c.n
        resident == InternalBuffer(b)
        clamped == IF count + Len(resident) > limit
                   THEN Slice(resident, 0, limit - count)
                   ELSE resident
        idx == FirstIndexOf(clamped, byte)
    IN  IF idx >= 0
        THEN LET to_push == Slice(clamped, 0, idx + 1)
             IN  {Outcome([b EXCEPT !.read_count = idx + 1],
                          c.src, "ok", count + Len(to_push), c.out \o to_push, c.reads)}
        ELSE LET b2 == [b EXCEPT !.read_count = b.read_count + Len(clamped)]
                 count2 == count + Len(clamped)
             IN  IF count2 >= limit
                 THEN {Outcome(b2, c.src, "ok", count2, c.out \o clamped, c.reads)}
                 ELSE NextFeed(b2, c.src, count2, c.out \o clamped, c.reads)

\* A read_until_limit that scans and appends the resident bytes without
\* clamping them to what the limit leaves.
ReadUntilLimitUnclamped(c, byte, limit) ==
    LET b == c.b
        count == c.n
        resident == InternalBuffer(b)
        idx == FirstIndexOf(resident, byte)
    IN  IF idx >= 0
        THEN LET to_push == Slice(resident, 0, idx + 1)
             IN  {Outcome([b EXCEPT !.read_count = b.read_count + Len(to_push)],
                          c.src, "ok", count + Len(to_push), c.out \o to_push, c.reads)}
        ELSE LET b2 == [b EXCEPT !.read_count = b.read_count + Len(resident)]
                 count2 == count + Len(resident)
             IN  IF count2 >= limit
                 THEN {Outcome(b2, c.src, "ok", count2, c.out \o resident, c.reads)}
                 ELSE NextFeed(b2, c.src, count2, c.out \o resident, c.reads)

\* read_until_limit, one iteration of its loop
ReadUntilLimitBody(c, byte, limit) ==
    LET b == c.b
        count == c.n
        resident == InternalBuffer(b)
        clamped == IF count + Len(resident) > limit
                   THEN Slice(resident, 0, limit - count)
                   ELSE resident
        idx == FirstIndexOf(clamped, byte)
    IN  IF idx >= 0
        THEN LET to_push == Slice(clamped, 0, idx + 1)
             IN  {Outcome([b EXCEPT !.read_count = b.read_count + Len(to_push)],
                          c.src, "ok", count + Len(to_push), c.out \o to_push, c.reads)}
        ELSE LET b2 == [b EXCEPT !.read_count = b.read_count + Len(clamped)]
                 count2 == count + Len(clamped)
             IN  IF count2 >= limit
                 THEN {Outcome(b2, c.src, "ok", count2, c.out \o clamped, c.reads)}
                 ELSE NextFeed(b2, c.src, count2, c.out \o clamped, c.reads)

RECURSIVE ReadUntilLimitLoop(_, _, _)
ReadUntilLimitLoop(cs, byte, limit) ==
    IF cs = {} THEN {}
    ELSE LET next == UNION {ReadUntilLimitBody(c, byte, limit) : c \in cs}
         IN  Returned(next) \cup ReadUntilLimitLoop(Running(next), byte, limit)

\* read_until_limit(read, byte, limit, buf)
ReadUntilLimit(b, src, byte, limit) ==
    IF limit = 0 THEN {Outcome(b, src, "ok", 0, <<>>, 0)}
    ELSE LET first == FirstFeed(b, src)
         IN  Returned(first) \cup ReadUntilLimitLoop(Running(first), byte, limit)

\* A read_to_end that appends the resident bytes and leaves the cursors
\* where they are.
ReadToEndKeepsCursors(c) ==
    LET push == InternalBuffer(c.b)
    IN  NextFeed(c.b, c.src, c.n + Len(push), c.out \o push, c.reads)

\* read_to_end, one iteration of its loop
ReadToEndBody(c) ==
    LET push == InternalBuffer(c.b)
    IN  NextFeed([c.b EXCEPT !.fill_count = 0, !.read_count = 0], c.src,
                 c.n + Len(push), c.out \o push, c.reads)

RECURSIVE ReadToEndLoop(_)
ReadToEndLoop(cs) ==
    IF cs = {} THEN {}
    ELSE LET next == UNION {ReadToEndBody(c) : c \in cs}
         IN  Returned(next) \cup ReadToEndLoop(Running(next))

\* read_to_end(read, buf)
ReadToEnd(b, src) ==
    LET first == FirstFeed(b, src)
    IN  Returned(first) \cup ReadToEndLoop(Running(first))

(***************************************************************************)
(* UTF-8 helpers.                                                          *)
(***************************************************************************)
\* s[i] of the code (0-based)
At(s, i) == s[i + 1]

\* utf8_len(first): the bit masks, written as divisions of a u8
utf8_len(first) ==
    IF first \div 128 = 0 THEN 1
    ELSE IF first \div 32 = 6 THEN 2
    ELSE IF first \div 16 = 14 THEN 3
    ELSE IF first \div 8 = 30 THEN 4
    ELSE 0

\* utf8_cont_assert(cont) succeeds: cont & 0b1100_0000 == 0b1000_0000
utf8_cont(cont) == cont \div 64 = 2

\* next_utf8(to_push, count): [kind, n] with kind "ok" (n the length of the
\* character), "invalid" (InvalidData) or "panic" (an index past the slice).
next_utf8(to_push, count) ==
    IF count >= Len(to_push) THEN [kind |-> "panic", n |-> 0]
    ELSE LET len == utf8_len(At(to_push, count))
             bad == {j \in 1..(len - 1) :
                        \/ count + j >= Len(to_push)
                        \/ ~utf8_cont(At(to_push, count + j))}
             j0 == CHOOSE j \in bad : \A k \in bad : j <= k
         IN  IF len = 0 THEN [kind |-> "invalid", n |-> 0]
             ELSE IF bad = {} THEN [kind |-> "ok", n |-> len]
             ELSE IF count + j0 >= Len(to_push) THEN [kind |-> "panic", n |-> 0]
             ELSE [kind |-> "invalid", n |-> 0]

\* core::str::from_utf8(s).is_ok(): s is well-formed UTF-8 (no overlong forms,
\* no surrogates, nothing above U+10FFFF), scanned from 0-based index i.
RECURSIVE WellFormedFrom(_, _)
WellFormedFrom(s, i) ==
    IF i >= Len(s) THEN TRUE
    ELSE LET b0 == At(s, i)
             have(k) == i + k < Len(s)
             in(k, lo, hi) == have(k) /\ lo <= At(s, i + k) /\ At(s, i + k) <= hi
         IN  IF b0 <= 127 THEN WellFormedFrom(s, i + 1)
             ELSE IF 194 <= b0 /\ b0 <= 223
                  THEN in(1, 128, 191) /\ WellFormedFrom(s, i + 2)
             ELSE IF b0 = 224
                  THEN in(1, 160, 191) /\ in(2, 128, 191) /\ WellFormedFrom(s, i + 3)
             ELSE IF (225 <= b0 /\ b0 <= 236) \/ b0 = 238 \/ b0 = 239
                  THEN in(1, 128, 191) /\ in(2, 128, 191) /\ WellFormedFrom(s, i + 3)
             ELSE IF b0 = 237
                  THEN in(1, 128, 159) /\ in(2, 128, 191) /\ WellFormedFrom(s, i + 3)
             ELSE IF b0 = 240
                  THEN in(1, 144, 191) /\ in(2, 128, 191) /\ in(3, 128, 191)
                       /\ WellFormedFrom(s, i + 4)
             ELSE IF 241 <= b0 /\ b0 <= 243
                  THEN in(1, 128, 191) /\ in(2, 128, 191) /\ in(3, 128, 191)
                       /\ WellFormedFrom(s, i + 4)
             ELSE IF b0 = 244
                  THEN in(1, 128, 143) /\ in(2, 128, 191) /\ in(3, 128, 191)
                       /\ WellFormedFrom(s, i + 4)
             ELSE FALSE

\* read_utf8(to_push) is Ok
read_utf8(to_push) == WellFormedFrom(to_push, 0)

\* while utf_index + keep < to_push.len() { utf_index += next_utf8(to_push, utf_index)? }
\* keep is 4 where the tail is withheld, 0 for the run that ends at '\n'.
\* The result is [kind, n]: n the final utf_index when kind is "ok".
RECURSIVE Utf8Scan(_, _, _)
Utf8Scan(to_push, utf_index, keep) ==
    IF ~(utf_index + keep < Len(to_push)) THEN [kind |-> "ok", n |-> utf_index]
    ELSE LET r == next_utf8(to_push, utf_index)
         IN  IF r.kind = "ok" THEN Utf8Scan(to_push, utf_index + r.n, keep)
             ELSE r

\* The end-of-stream check of read_to_string: "ok", "invalid" or "panic"
\* (the unreachable!() arm, taken when utf8_len returns 0).
RECURSIVE FinalScan(_, _)
FinalScan(to_push, utf_index) ==
    IF utf_index >= Len(to_push) THEN "ok"
    ELSE LET len == utf8_len(At(to_push, utf_index))
         IN  IF len > Len(to_push) - utf_index THEN "invalid"
             ELSE IF len = 0 THEN "panic"
             ELSE IF \E j \in 1..(len - 1) : ~utf8_cont(At(to_push, utf_index + j))
                  THEN "invalid"
             ELSE FinalScan(to_push, utf_index + len)

\* A decoding that withholds nothing: it runs into a character whose last
\* bytes the source has not delivered yet.
DecodeWithoutWithholding(c) ==
    LET b == c.b
        to_push == InternalBuffer(b)
        scan == Utf8Scan(to_push, 0, 0)
    IN  IF scan.kind # "ok" THEN Outcome(b, c.src, scan.kind, 0, c.out, c.reads)
        ELSE Outcome([b EXCEPT !.read_count = b.read_count + scan.n], c.src,
                     "run", c.n + scan.n, c.out \o Slice(to_push, 0, scan.n), c.reads)

\* A decoding pass that holds back only the last byte.
DecodeLeadingRunKeepsOne(c) ==
    LET b == c.b
        to_push == InternalBuffer(b)
        scan == Utf8Scan(to_push, 0, 1)
        utf_index == scan.n
    IN  IF scan.kind # "ok" THEN Outcome(b, c.src, scan.kind, 0, c.out, c.reads)
        ELSE IF utf_index > 0
        THEN IF ~read_utf8(Slice(to_push, 0, utf_index))
             THEN Outcome(b, c.src, "invalid", 0, c.out, c.reads)
             ELSE Outcome([b EXCEPT !.read_count = b.read_count + utf_index], c.src,
                          "run", c.n + utf_index,
                          c.out \o Slice(to_push, 0, utf_index), c.reads)
        ELSE c

\* A decoding pass that holds back up to 8 bytes instead of 4.
DecodeLeadingRunKeepsEight(c) ==
    LET b == c.b
        to_push == InternalBuffer(b)
        scan == Utf8Scan(to_push, 0, 8)
        utf_index == scan.n
    IN  IF scan.kind # "ok" THEN Outcome(b, c.src, scan.kind, 0, c.out, c.reads)
        ELSE IF utf_index > 0
        THEN IF ~read_utf8(Slice(to_push, 0, utf_index))
             THEN Outcome(b, c.src, "invalid", 0, c.out, c.reads)
             ELSE Outcome([b EXCEPT !.read_count = b.read_count + utf_index], c.src,
                          "run", c.n + utf_index,
                          c.out \o Slice(to_push, 0, utf_index), c.reads)
        ELSE c

\* The part of an iteration shared by read_to_string and read_line: decode
\* the resident bytes but the last up to 4 and move the cursor past them.
\* The result is a configuration ("run"), or the InvalidData / panic return.
DecodeLeadingRun(c) ==
    LET b == c.b
        to_push == InternalBuffer(b)
        scan == Utf8Scan(to_push, 0, 4)
        utf_index == scan.n
    IN  IF scan.kind # "ok" THEN Outcome(b, c.src, scan.kind, 0, c.out, c.reads)
        ELSE IF utf_index > 0
        THEN IF ~read_utf8(Slice(to_push, 0, utf_index))
             THEN Outcome(b, c.src, "invalid", 0, c.out, c.reads)
             ELSE Outcome([b EXCEPT !.read_count = b.read_count + utf_index], c.src,
                          "run", c.n + utf_index,
                          c.out \o Slice(to_push, 0, utf_index), c.reads)
        ELSE c

\* read_to_string at end of stream: check the withheld bytes and push them.
\* debug_assert!(!to_push.is_empty() && to_push.len() <= 4) panics in a debug
\* build only, so a violation has both continuations.
ReadToStringAtEof(b, src, count, out, reads) ==
    LET to_push == InternalBuffer(b)
        check == FinalScan(to_push, 0)
        rest == IF check # "ok" THEN Outcome(b, src, check, 0, out, reads)
                ELSE IF ~read_utf8(to_push) THEN Outcome(b, src, "invalid", 0, out, reads)
                ELSE Outcome(b, src, "ok", count + Len(to_push), out \o to_push, reads)
    IN  IF Len(to_push) = 0 \/ Len(to_push) > 4
        THEN {Outcome(b, src, "panic", 0, out, reads), rest}
        ELSE {rest}

\* read_to_string, one iteration of its loop
ReadToStringBody(c) ==
    LET d == DecodeLeadingRun(c)
    IN  IF d.res # "run" THEN {d}
        ELSE UNION { IF f.got = "err"
                     THEN {Outcome(f.b, f.src, "err", 0, d.out, d.reads + 1)}
                     ELSE IF f.got = "true"
                     THEN {Outcome(f.b, f.src, "run", d.n, d.out, d.reads + 1)}
                     ELSE ReadToStringAtEof(f.b, f.src, d.n, d.out, d.reads + 1)
                   : f \in Feed(d.b, d.src) }

RECURSIVE ReadToStringLoop(_)
ReadToStringLoop(cs) ==
    IF cs = {} THEN {}
    ELSE LET next == UNION {ReadToStringBody(c) : c \in cs}
         IN  Returned(next) \cup ReadToStringLoop(Running(next))

\* read_to_string(read, buf)
ReadToString(b, src) ==
    LET first == FirstFeed(b, src)
    IN  Returned(first) \cup ReadToStringLoop(Running(first))

\* A read_line that stops in front of the newline instead of behind it.
ReadLineStopsBeforeNewline(c) ==
    LET b == c.b
        idx == FirstIndexOf(InternalBuffer(b), NL)
    IN  IF idx >= 0
        THEN LET to_push == Slice(b.buffer, b.read_count, b.read_count + idx)
             IN  {Outcome([b EXCEPT !.read_count = b.read_count + Len(to_push)],
                          c.src, "ok", c.n + Len(to_push), c.out \o to_push, c.reads)}
        ELSE LET d == DecodeLeadingRun(c)
             IN  IF d.res # "run" THEN {d}
                 ELSE NextFeed(d.b, d.src, d.n, d.out, d.reads)

\* A read_line that, like BufRead's, discards the bytes it holds back when
\* the stream ends.
ReadLineDropsTail(c) ==
    LET b == c.b
        idx == FirstIndexOf(InternalBuffer(b), NL)
    IN  IF idx >= 0
        THEN LET to_push == Slice(b.buffer, b.read_count, b.read_count + idx + 1)
                 scan == Utf8Scan(to_push, 0, 0)
             IN  IF scan.kind # "ok"
                 THEN {Outcome(b, c.src, scan.kind, 0, c.out, c.reads)}
                 ELSE IF ~read_utf8(to_push)
                 THEN {Outcome(b, c.src, "invalid", 0, c.out, c.reads)}
                 ELSE {Outcome([b EXCEPT !.read_count = b.read_count + Len(to_push)],
                               c.src, "ok", c.n + Len(to_push), c.out \o to_push,
                               c.reads)}
        ELSE LET d == DecodeLeadingRun(c)
             IN  IF d.res # "run" THEN {d}
                 ELSE { IF o.res = "ok"
                        THEN [o EXCEPT !.b.read_count = 0, !.b.fill_count = 0]
                        ELSE o
                      : o \in NextFeed(d.b, d.src, d.n, d.out, d.reads) }

\* read_line, one iteration of its loop
ReadLineBody(c) ==
    LET b == c.b
        idx == FirstIndexOf(InternalBuffer(b), NL)
    IN  IF idx >= 0
        THEN LET to_push == Slice(b.buffer, b.read_count, b.read_count + idx + 1)
                 scan == Utf8Scan(to_push, 0, 0)
             IN  IF scan.kind # "ok"
                 THEN {Outcome(b, c.src, scan.kind, 0, c.out, c.reads)}
                 ELSE IF ~read_utf8(to_push)
                 THEN {Outcome(b, c.src, "invalid", 0, c.out, c.reads)}
                 ELSE {Outcome([b EXCEPT !.read_count = b.read_count + Len(to_push)],
                               c.src, "ok", c.n + Len(to_push), c.out \o to_push,
                               c.reads)}
        ELSE LET d == DecodeLeadingRun(c)
             IN  IF d.res # "run" THEN {d}
                 ELSE NextFeed(d.b, d.src, d.n, d.out, d.reads)

RECURSIVE ReadLineLoop(_)
ReadLineLoop(cs) ==
    IF cs = {} THEN {}
    ELSE LET next == UNION {ReadLineBody(c) : c \in cs}
         IN  Returned(next) \cup ReadLineLoop(Running(next))

\* read_line(read, buf)
ReadLine(b, src) ==
    LET first == FirstFeed(b, src)
    IN  Returned(first) \cup ReadLineLoop(Running(first))

(***************************************************************************)
(* The external sink (impl Write).  A write of m bytes returns an error (a *)
(* faulty sink only) or accepts the first Min(m, chunk) bytes: the Vec of  *)
(* the tests has chunk >= S and takes every write whole, a sink with a     *)
(* smaller chunk makes short writes.  flush returns an error (a faulty     *)
(* sink only) or succeeds.                                                 *)
(***************************************************************************)
\* The results of one write.write(slice) with slice.len() = m: -1 is Err.
StreamWrite(snk, m) ==
    (IF snk.faulty THEN {-1} ELSE {})
    \cup {Min(m, snk.chunk)}

\* The results of write.flush(): TRUE is Ok.
StreamFlush(snk) == {TRUE} \cup (IF snk.faulty THEN {FALSE} ELSE {})

(***************************************************************************)
(* UnownedWriteBuffer: a buffer value is [buffer, fill_count].             *)
(***************************************************************************)
WAvailable(w) == Len(w.buffer) - w.fill_count

Flushable(w) == w.fill_count

WInternalBuffer(w) == Slice(w.buffer, 0, w.fill_count)

NewWriteBuffer == [buffer |-> Zeroes(S), fill_count |-> 0]

\* The outcome of a call: the buffer and sink after it, the result, the count
\* returned, the number of bytes of the caller's data copied into the buffer,
\* and the numbers of sink write and sink flush calls made.
WOutcome(w, snk, res, n, taken, writes, flushes) ==
    [w |-> w, snk |-> snk, res |-> res, n |-> n, taken |-> taken,
     writes |-> writes, flushes |-> flushes]

PushErrorKeepsAll(c) ==
    LET w == c.w
    IN  { IF cnt = -1
          THEN [c EXCEPT !.res = "err", !.n = 0]
          ELSE LET count == c.n + cnt
               IN  [c EXCEPT
                      !.snk.received = @ \o Slice(w.buffer, c.n, c.n + cnt),
                      !.n = IF count < w.fill_count THEN count ELSE 0,
                      !.w.fill_count = IF count < w.fill_count THEN @ ELSE 0,
                      !.res = IF count < w.fill_count THEN "run" ELSE "ok",
                      !.writes = @ + 1]
        : cnt \in StreamWrite(c.snk, w.fill_count - c.n) }

\* A push that takes one write call for the whole buffer: a short write
\* loses the bytes the sink did not take.
PushSingleWrite(c) ==
    { IF cnt = -1
      THEN [c EXCEPT !.res = "err", !.writes = @ + 1]
      ELSE [c EXCEPT
              !.snk.received = @ \o Slice(c.w.buffer, 0, cnt),
              !.w.fill_count = 0, !.n = 0, !.res = "ok", !.writes = @ + 1]
    : cnt \in StreamWrite(c.snk, c.w.fill_count) }

\* A push that drops the resident bytes when its first write call fails.
PushFirstErrorClears(c) ==
    LET w == c.w
    IN  { IF cnt = -1
          THEN IF c.n = 0
               THEN [c EXCEPT !.w.fill_count = 0, !.res = "err", !.writes = @ + 1]
               ELSE [c EXCEPT
                       !.w.buffer = CopyWithin(w.buffer, c.n, w.fill_count),
                       !.w.fill_count = w.fill_count - c.n,
                       !.res = "err", !.n = 0, !.writes = @ + 1]
          ELSE LET count == c.n + cnt
               IN  [c EXCEPT
                      !.snk.received = @ \o Slice(w.buffer, c.n, c.n + cnt),
                      !.n = IF count < w.fill_count THEN count ELSE 0,
                      !.w.fill_count = IF count < w.fill_count THEN @ ELSE 0,
                      !.res = IF count < w.fill_count THEN "run" ELSE "ok",
                      !.writes = @ + 1]
        : cnt \in StreamWrite(c.snk, w.fill_count - c.n) }

\* push, one iteration of `while count < self.fill_count`; n is `count`.
PushBody(c) ==
    LET w == c.w
    IN  { IF cnt = -1
          THEN IF c.n = 0
               THEN [c EXCEPT !.res = "err", !.writes = @ + 1]
               ELSE [c EXCEPT
                       !.w.buffer = CopyWithin(w.buffer, c.n, w.fill_count),
                       !.w.fill_count = w.fill_count - c.n,
                       !.res = "err", !.n = 0, !.writes = @ + 1]
          ELSE LET count == c.n + cnt
               IN  [c EXCEPT
                      !.snk.received = @ \o Slice(w.buffer, c.n, c.n + cnt),
                      !.n = IF count < w.fill_count THEN count ELSE 0,
                      !.w.fill_count = IF count < w.fill_count THEN @ ELSE 0,
                      !.res = IF count < w.fill_count THEN "run" ELSE "ok",
                      !.writes = @ + 1]
        : cnt \in StreamWrite(c.snk, w.fill_count - c.n) }

RECURSIVE PushLoop(_)
PushLoop(cs) ==
    IF cs = {} THEN {}
    ELSE LET next == UNION {PushBody(c) : c \in cs}
         IN  Returned(next) \cup PushLoop(Running(next))

\* push(write)
Push(w, snk) ==
    IF w.fill_count = 0 THEN {WOutcome(w, snk, "ok", 0, 0, 0, 0)}
    ELSE PushLoop({WOutcome(w, snk, "run", 0, 0, 0, 0)})

\* A flush that calls the sink's flush whether or not the push succeeded.
FlushRegardless(w, snk) ==
    UNION { { [p EXCEPT !.res = IF ok /\ p.res = "ok" THEN "ok" ELSE "err",
                        !.flushes = 1]
            : ok \in StreamFlush(p.snk) }
          : p \in Push(w, snk) }

\* flush(write)
Flush(w, snk) ==
    UNION { IF p.res # "ok" THEN {p}
            ELSE { [p EXCEPT !.res = IF ok THEN "ok" ELSE "err", !.flushes = 1]
                 : ok \in StreamFlush(p.snk) }
          : p \in Push(w, snk) }

\* A copy that always takes all of data, whether it fits or not.
WriteCopyUnclamped(w, available, data) ==
    [w |-> [w EXCEPT
              !.buffer = CopyFromSlice(w.buffer, w.fill_count, data),
              !.fill_count = w.fill_count + Len(data)],
     res |-> "full", copied |-> Len(data)]

\* The copy shared by try_write, write and write_all: data is what is left of
\* the caller's slice, available what the caller computed.  PARTIAL WRITE
\* copies into buffer[fill_count..], whose length must be `available`
\* (copy_from_slice panics otherwise); FULL WRITE copies all of data.
\* The result is [w, res, copied].
WriteCopy(w, available, data) ==
    IF available < Len(data)
    THEN IF Len(w.buffer) - w.fill_count # available
         THEN [w |-> w, res |-> "panic", copied |-> 0]
         ELSE [w |-> [w EXCEPT
                        !.buffer = CopyFromSlice(w.buffer, w.fill_count,
                                                 Slice(data, 0, available)),
                        !.fill_count = w.fill_count + available],
               res |-> "partial", copied |-> available]
    ELSE IF w.fill_count + Len(data) > Len(w.buffer)
         THEN [w |-> w, res |-> "panic", copied |-> 0]
         ELSE [w |-> [w EXCEPT
                        !.buffer = CopyFromSlice(w.buffer, w.fill_count, data),
                        !.fill_count = w.fill_count + Len(data)],
               res |-> "full", copied |-> Len(data)]

\* A try_write that takes data only when all of it fits.
TryWriteAllOrNothing(w, snk, data) ==
    IF Len(data) = 0 \/ WAvailable(w) < Len(data)
    THEN {WOutcome(w, snk, "ok", 0, 0, 0, 0)}
    ELSE LET c == WriteCopy(w, WAvailable(w), data)
         IN  {WOutcome(c.w, snk, IF c.res = "panic" THEN "panic" ELSE "ok",
                       c.copied, c.copied, 0, 0)}

\* try_write(buffer)
TryWrite(w, snk, data) ==
    IF Len(data) = 0 THEN {WOutcome(w, snk, "ok", 0, 0, 0, 0)}
    ELSE IF WAvailable(w) = 0 THEN {WOutcome(w, snk, "ok", 0, 0, 0, 0)}
    ELSE LET c == WriteCopy(w, WAvailable(w), data)
         IN  {WOutcome(c.w, snk, IF c.res = "panic" THEN "panic" ELSE "ok",
                       c.copied, c.copied, 0, 0)}

\* A write that pushes whatever is resident before it copies.
WriteAlwaysPushes(w, snk, data) ==
    IF Len(data) = 0 THEN {WOutcome(w, snk, "ok", 0, 0, 0, 0)}
    ELSE { IF p.res # "ok" THEN p
           ELSE LET c == WriteCopy(p.w, Len(p.w.buffer), data)
                IN  [p EXCEPT !.w = c.w,
                              !.res = IF c.res = "panic" THEN "panic" ELSE "ok",
                              !.n = c.copied, !.taken = c.copied]
         : p \in Push(w, snk) }

\* write(write, buffer)
Write(w, snk, data) ==
    IF Len(data) = 0 THEN {WOutcome(w, snk, "ok", 0, 0, 0, 0)}
    ELSE IF WAvailable(w) = 0
    THEN { IF p.res # "ok" THEN p
           ELSE LET c == WriteCopy(p.w, Len(p.w.buffer), data)
                IN  [p EXCEPT !.w = c.w,
                              !.res = IF c.res = "panic" THEN "panic" ELSE "ok",
                              !.n = c.copied, !.taken = c.copied]
         : p \in Push(w, snk) }
    ELSE LET c == WriteCopy(w, WAvailable(w), data)
         IN  {WOutcome(c.w, snk, IF c.res = "panic" THEN "panic" ELSE "ok",
                       c.copied, c.copied, 0, 0)}

\* write_all, one iteration of its loop; taken is `count`.
WriteAllBody(c, data) ==
    LET pushed == IF WAvailable(c.w) = 0
                  THEN { [p EXCEPT !.taken = c.taken, !.writes = c.writes + p.writes]
                       : p \in Push(c.w, c.snk) }
                  ELSE {[c EXCEPT !.res = "ok"]}
    IN  { IF p.res # "ok" THEN p
          ELSE LET available == IF WAvailable(c.w) = 0
                                THEN Len(p.w.buffer) ELSE WAvailable(c.w)
                   r == WriteCopy(p.w, available, Slice(data, c.taken, Len(data)))
                   count == c.taken + r.copied
               IN  [p EXCEPT !.w = r.w, !.taken = count,
                             !.res = IF r.res = "panic" THEN "panic"
                                     ELSE IF r.res = "partial" /\ count < Len(data)
                                     THEN "run" ELSE "ok"]
        : p \in pushed }

RECURSIVE WriteAllLoop(_, _)
WriteAllLoop(cs, data) ==
    IF cs = {} THEN {}
    ELSE LET next == UNION {WriteAllBody(c, data) : c \in cs}
         IN  Returned(next) \cup WriteAllLoop(Running(next), data)

\* A write_all that makes one pass, as write does, and returns Ok whatever
\* part of data it placed.
WriteAllSinglePass(w, snk, data) == Write(w, snk, data)

\* write_all(write, buffer)
WriteAll(w, snk, data) ==
    IF Len(data) = 0 THEN {WOutcome(w, snk, "ok", 0, 0, 0, 0)}
    ELSE WriteAllLoop({WOutcome(w, snk, "run", 0, 0, 0, 0)}, data)

(***************************************************************************)
(* The read buffer as a state machine: one action per public operation.    *)
(***************************************************************************)
Buf == [buffer |-> buffer, read_count |-> read_count, fill_count |-> fill_count]

NoCall ==
    [op |-> "new", a1 |-> 0, a2 |-> 0, res |-> "ok", n |-> 0, out |-> <<>>,
     reads |-> 0, pre_read_count |-> 0, pre_fill_count |-> 0,
     pre_resident |-> <<>>, pre_pos |-> 0]

\* One call of operation op with arguments a1, a2 takes one of its outcomes.
\* out holds the bytes the call wrote to the caller (for skip and consume: the
\* bytes it discarded).
Call(op, a1, a2, outcomes) ==
    \E o \in outcomes :
        /\ buffer' = o.b.buffer
        /\ read_count' = o.b.read_count
        /\ fill_count' = o.b.fill_count
        /\ source' = o.src
        /\ delivered' = IF phase = "any" THEN delivered ELSE delivered \o o.out
        /\ last' = [op |-> op, a1 |-> a1, a2 |-> a2, res |-> o.res, n |-> o.n,
                    out |-> o.out, reads |-> o.reads,
                    pre_read_count |-> read_count, pre_fill_count |-> fill_count,
                    pre_resident |-> InternalBuffer(Buf), pre_pos |-> source.pos]

ReadLens == (0..MaxReq) \cup {S + 1}
Amounts == 0..MaxReq
Delimiters == {NL, 66}
Limits == (0..MaxReq) \cup {S + 1}

DoTryRead ==
    /\ \E len \in ReadLens : Call("try_read", len, 0, TryRead(Buf, source, len))
    /\ UNCHANGED <<injected, wvars, phase, dvars>>

DoRead ==
    /\ \E len \in ReadLens : Call("read", len, 0, Read(Buf, source, len))
    /\ UNCHANGED <<injected, wvars, phase, dvars>>

DoReadExact ==
    /\ \E len \in ReadLens :
          Call("read_exact", len, 0, ReadExact(Buf, source, len))
    /\ UNCHANGED <<injected, wvars, phase, dvars>>

DoReadUntil ==
    /\ \E byte \in Delimiters :
          Call("read_until", byte, 0, ReadUntil(Buf, source, byte))
    /\ UNCHANGED <<injected, wvars, phase, dvars>>

DoReadUntilLimit ==
    /\ \E byte \in Delimiters, limit \in Limits :
          Call("read_until_limit", byte, limit,
               ReadUntilLimit(Buf, source, byte, limit))
    /\ UNCHANGED <<injected, wvars, phase, dvars>>

DoReadToEnd ==
    /\ Call("read_to_end", 0, 0, ReadToEnd(Buf, source))
    /\ UNCHANGED <<injected, wvars, phase, dvars>>

DoSkip ==
    /\ \E amount \in Amounts : Call("skip", amount, 0, Skip(Buf, source, amount))
    /\ UNCHANGED <<injected, wvars, phase, dvars>>

DoFillBuf ==
    /\ Call("fill_buf", 0, 0, FillBuf(Buf, source))
    /\ UNCHANGED <<injected, wvars, phase, dvars>>

DoConsume ==
    /\ \E amt \in Amounts : Call("consume", amt, 0, Consume(Buf, source, amt))
    /\ UNCHANGED <<injected, wvars, phase, dvars>>

DoCompact ==
    /\ Call("compact", 0, 0, CompactOp(Buf, source))
    /\ UNCHANGED <<injected, wvars, phase, dvars>>

DoEnsureReadable ==
    /\ Call("ensure_readable", 0, 0, EnsureReadable(Buf, source))
    /\ UNCHANGED <<injected, wvars, phase, dvars>>

DoReadIntoInternalBuffer ==
    /\ Call("read_into_internal_buffer", 0, 0, ReadIntoInternalBuffer(Buf, source))
    /\ UNCHANGED <<injected, wvars, phase, dvars>>

\* The caller primes the buffer with its own bytes (88, 'X') when it works
\* without a stream (the source is the empty one): nothing, one buffer full,
\* or one byte more than that; one buffer full is accepted once.
DoCopyIntoInternalBuffer ==
    /\ Len(source.data) = 0
    /\ \E k \in {0, S, S + 1} :
          /\ injected + Min(k, S) <= S
          /\ Call("copy_into_internal_buffer", k, 0,
                  CopyIntoInternalBuffer(Buf, source, [i \in 1..k |-> 88]))
          /\ injected' = IF last'.res = "ok" THEN injected + k ELSE injected
    /\ UNCHANGED <<wvars, phase, dvars>>

DoReadToString ==
    /\ Call("read_to_string", 0, 0, ReadToString(Buf, source))
    /\ UNCHANGED <<injected, wvars, phase, dvars>>

DoReadLine ==
    /\ Call("read_line", 0, 0, ReadLine(Buf, source))
    /\ UNCHANGED <<injected, wvars, phase, dvars>>

\* Sources.  Short ones are read in small chunks and may fail; the long one
\* overfills the buffer in one read.
Src(data, faulty, bulk) == [data |-> data, pos |-> 0, faulty |-> faulty, bulk |-> bulk]

\* "A\n", e-acute, "BC": well-formed UTF-8
TextShort == <<65, 10, 195, 169, 66, 67>>

\* Not UTF-8: a stray 0xFF, and a 2-byte character cut off by the end of the stream
BytesBad == <<65, 255, 10, 195>>

\* S + 2 bytes of well-formed UTF-8: "AB\n", e-acute, "C", the euro sign, then "A"s
TextLong ==
    [i \in 1..(S + 2) |->
        IF i <= 9 THEN <<65, 66, 10, 195, 169, 67, 226, 130, 172>>[i] ELSE 65]

NoWCall ==
    [op |-> "new", len |-> 0, res |-> "ok", n |-> 0, taken |-> 0, writes |-> 0,
     flushes |-> 0, pre_fill_count |-> 0, pre_resident |-> <<>>, pre_received |-> 0]

Snk(faulty, chunk) == [received |-> <<>>, faulty |-> faulty, chunk |-> chunk]

\* The threads that share a DuplexBufferedTcpStream
Threads == 1..3

\* No thread is inside a call and both mutexes are unlocked.
NoThreads ==
    /\ mutex = [read_buf |-> 0, write_buf |-> 0]
    /\ thread = [t \in Threads |-> [pc |-> "idle", op |-> "none", res |-> "none"]]

InitWrite(sinks) ==
    /\ w_buffer = NewWriteBuffer.buffer
    /\ w_fill_count = NewWriteBuffer.fill_count
    /\ sink \in sinks
    /\ accepted = <<>>
    /\ w_last = NoWCall

NewWriteState == InitWrite({Snk(FALSE, S)})

InitRead(sources, mode) ==
    /\ buffer = NewReadBuffer.buffer
    /\ read_count = NewReadBuffer.read_count
    /\ fill_count = NewReadBuffer.fill_count
    /\ source \in sources
    /\ delivered = <<>>
    /\ injected = 0
    /\ last = NoCall
    /\ NewWriteState
    /\ phase = mode
    /\ NoThreads

(***************************************************************************)
(* Spec: every operation of the read buffer, on sources that may fail.     *)
(***************************************************************************)
Init ==
    InitRead({Src(TextShort, TRUE, FALSE), Src(BytesBad, TRUE, FALSE),
              Src(TextLong, FALSE, TRUE), Src(<<>>, TRUE, FALSE)}, "any")

Next ==
    \/ DoTryRead
    \/ DoRead
    \/ DoReadExact
    \/ DoReadUntil
    \/ DoReadUntilLimit
    \/ DoReadToEnd
    \/ DoSkip
    \/ DoFillBuf
    \/ DoConsume
    \/ DoCompact
    \/ DoEnsureReadable
    \/ DoReadIntoInternalBuffer
    \/ DoCopyIntoInternalBuffer
    \/ DoReadToString
    \/ DoReadLine

Spec == Init /\ [][Next]_vars

\* C1: in every state, after any sequence of read-buffer operations and on
\* every return path, 0 <= read_count <= fill_count <= S.
C1_CursorInvariant ==
    /\ 0 <= read_count
    /\ read_count <= fill_count
    /\ fill_count <= S
    /\ Len(buffer) = S

C1_Witness ==
    /\ last.op = "read_into_internal_buffer"
    /\ last.res = "ok"
    /\ last.n > 0
    /\ fill_count = S
    /\ read_count > 0

(***************************************************************************)
(* SpecRaw: the byte operations on one source, with the history of the     *)
(* bytes handed over.  The bytes of the short source are all different;    *)
(* the long one, which overfills the buffer, has a 'B' at every 6th place. *)
(***************************************************************************)
\* "ABC\nDE"
RawShort == <<65, 66, 67, 10, 68, 69>>

\* S + 2 bytes, "AAAAABAAAAAB..."
RawLong == [i \in 1..(S + 2) |-> IF i % 6 = 0 THEN 66 ELSE 65]

InitRaw ==
    InitRead({Src(RawShort, TRUE, FALSE), Src(RawLong, FALSE, TRUE)}, "raw")

NextRaw ==
    \/ DoTryRead
    \/ DoRead
    \/ DoReadExact
    \/ DoReadUntil
    \/ DoReadUntilLimit
    \/ DoReadToEnd
    \/ DoSkip
    \/ DoFillBuf
    \/ DoConsume
    \/ DoCompact
    \/ DoEnsureReadable

SpecRaw == InitRaw /\ [][NextRaw]_vars

\* C2: the bytes handed to the caller (or skipped, or consumed) so far,
\* followed by the resident bytes buffer[read_count..fill_count], are exactly
\* the prefix of the source stream pulled from the source so far.
C2_NoLossNoDuplication ==
    delivered \o InternalBuffer(Buf) = Slice(source.data, 0, source.pos)

\* A compaction has moved resident bytes to the front while bytes were out.
C2_Witness ==
    /\ last.op = "compact"
    /\ last.pre_read_count > 0
    /\ Len(last.pre_resident) > 1
    /\ Len(delivered) > 0
    /\ read_count = 0

(***************************************************************************)
(* SpecRoundTrip: a caller that reads a whole stream, either with read     *)
(* until it returns 0 (test_read) or with read_exact, the request clamped  *)
(* to what is left (test_read_exact).  The sources do not fail.            *)
(***************************************************************************)
RoundTripData == {<<>>, <<0>>, <<255, 0, 255, 255>>, RawShort, RawLong}

InitRoundTrip ==
    \E mode \in {"read", "read_exact"} :
        InitRead({Src(data, FALSE, bulk) :
                     data \in RoundTripData, bulk \in BOOLEAN}, mode)

RequestSizes == (1..MaxReq) \cup {S + 1}

LoopRead ==
    /\ phase = "read"
    /\ \E len \in RequestSizes : Call("read", len, 0, Read(Buf, source, len))
    /\ phase' = IF last'.res = "ok" /\ last'.n = 0 THEN "done" ELSE "read"
    /\ UNCHANGED <<injected, wvars, dvars>>

LoopReadExact ==
    /\ phase = "read_exact"
    /\ LET rem == Len(source.data) - Len(delivered)
       IN  IF rem = 0
           THEN /\ phase' = "done"
                /\ UNCHANGED <<rvars, wvars, dvars>>
           ELSE /\ \E size \in RequestSizes :
                      Call("read_exact", Min(size, rem), 0,
                           ReadExact(Buf, source, Min(size, rem)))
                /\ phase' = IF last'.res = "ok" THEN "read_exact" ELSE "failed"
                /\ UNCHANGED <<injected, wvars, dvars>>

NextRoundTrip == LoopRead \/ LoopReadExact

SpecRoundTrip == InitRoundTrip /\ [][NextRoundTrip]_vars

\* C3: reading a stream to its end with read (until it returns 0) or with
\* read_exact (the request clamped to the remaining length) never fails, and
\* the concatenation of the results is the original byte sequence; what has
\* been read so far is always a prefix of it.
C3_ReadRoundTrip ==
    /\ phase # "failed"
    /\ last.res = "ok"
    /\ Len(delivered) <= Len(source.data)
    /\ delivered = Slice(source.data, 0, Len(delivered))
    /\ phase = "done" => delivered = source.data

\* A stream longer than the buffer has been read to its end in several calls.
C3_Witness ==
    /\ phase = "done"
    /\ Len(source.data) > S
    /\ delivered = source.data

(***************************************************************************)
(* The write buffer as a state machine: one action per public operation.   *)
(* The caller writes one long stream, byte after byte, and goes on after   *)
(* the last byte the buffer took.                                          *)
(***************************************************************************)
WBuf == [buffer |-> w_buffer, fill_count |-> w_fill_count]

\* The k-th byte (from 1) of the caller's stream
InputByte(k) == IF k % 5 = 0 THEN 66 ELSE 65

\* The next len bytes the caller has to write
NextData(len) == [i \in 1..len |-> InputByte(Len(accepted) + i)]

DataLens == (0..MaxReq) \cup {S, S + MaxReq}

WCall(op, data, outcomes) ==
    \E o \in outcomes :
        /\ w_buffer' = o.w.buffer
        /\ w_fill_count' = o.w.fill_count
        /\ sink' = o.snk
        /\ accepted' = accepted \o Slice(data, 0, o.taken)
        /\ w_last' = [op |-> op, len |-> Len(data), res |-> o.res, n |-> o.n,
                      taken |-> o.taken, writes |-> o.writes, flushes |-> o.flushes,
                      pre_fill_count |-> w_fill_count,
                      pre_resident |-> WInternalBuffer(WBuf),
                      pre_received |-> Len(sink.received)]

\* The caller stops writing after S + 2 * MaxReq bytes.
HasData(len) == Len(accepted) + len <= S + 2 * MaxReq

DoTryWrite ==
    /\ \E len \in DataLens :
          /\ HasData(len)
          /\ WCall("try_write", NextData(len), TryWrite(WBuf, sink, NextData(len)))
    /\ UNCHANGED <<rvars, phase, dvars>>

DoWrite ==
    /\ \E len \in DataLens :
          /\ HasData(len)
          /\ WCall("write", NextData(len), Write(WBuf, sink, NextData(len)))
    /\ UNCHANGED <<rvars, phase, dvars>>

DoWriteAll ==
    /\ \E len \in DataLens :
          /\ HasData(len)
          /\ WCall("write_all", NextData(len), WriteAll(WBuf, sink, NextData(len)))
    /\ UNCHANGED <<rvars, phase, dvars>>

DoFlush ==
    /\ WCall("flush", <<>>, Flush(WBuf, sink))
    /\ UNCHANGED <<rvars, phase, dvars>>

IdleRead ==
    /\ buffer = NewReadBuffer.buffer
    /\ read_count = NewReadBuffer.read_count
    /\ fill_count = NewReadBuffer.fill_count
    /\ source = Src(<<>>, FALSE, TRUE)
    /\ delivered = <<>>
    /\ injected = 0
    /\ last = NoCall

(***************************************************************************)
(* SpecWrite: every operation of the write buffer, on sinks that take a    *)
(* write in pieces, and may fail.                                          *)
(***************************************************************************)
InitWriteSpec ==
    /\ IdleRead
    /\ InitWrite({Snk(FALSE, S), Snk(FALSE, 1), Snk(TRUE, SinkChunk)})
    /\ phase = "any"
    /\ NoThreads

NextWrite == DoTryWrite \/ DoWrite \/ DoWriteAll \/ DoFlush

SpecWrite == InitWriteSpec /\ [][NextWrite]_vars

\* C4: on a sink that accepts at least one byte per write call, write returns
\* the number of bytes it took (at least 1 of a non-empty chunk), write_all
\* takes the whole chunk, no call fails, and after a flush the sink has
\* received exactly the bytes written, each once and in order, with
\* flushable() = 0.
C4_WriteRoundTrip ==
    ~sink.faulty =>
        /\ w_last.res = "ok"
        /\ w_last.op = "write" =>
              /\ w_last.n = w_last.taken
              /\ w_last.len > 0 => w_last.n >= 1
        /\ w_last.op = "write_all" => w_last.taken = w_last.len
        /\ w_last.op = "flush" =>
              /\ sink.received = accepted
              /\ Flushable(WBuf) = 0

\* More than a buffer full has been written, in chunks, to a sink that takes
\* one byte per write call, and flushed.
C4_Witness ==
    /\ ~sink.faulty
    /\ sink.chunk = 1
    /\ w_last.op = "flush"
    /\ w_last.pre_fill_count > 0
    /\ Len(accepted) > S
    /\ sink.received = accepted

\* flush or write made one push, and that push failed.
PushFailed ==
    /\ w_last.op \in {"flush", "write"}
    /\ w_last.res = "err"
    /\ w_last.flushes = 0

\* C5: the bytes the sink received followed by the resident bytes are always
\* the bytes the buffer accepted (each reaches the sink once, in order); when
\* the push of a flush or write fails after the sink took k > 0 bytes, those
\* k bytes are gone from the buffer, the rest is at offset 0 in its order with
\* fill_count reduced by k; and after a successful flush the sink has it all.
C5_PartialWriteRecovery ==
    /\ sink.received \o WInternalBuffer(WBuf) = accepted
    /\ PushFailed =>
          LET k == Len(sink.received) - w_last.pre_received
          IN  /\ k < w_last.pre_fill_count
              /\ w_fill_count = w_last.pre_fill_count - k
              /\ WInternalBuffer(WBuf)
                    = Slice(w_last.pre_resident, k, w_last.pre_fill_count)
              /\ Slice(sink.received, w_last.pre_received, Len(sink.received))
                    = Slice(w_last.pre_resident, 0, k)
    /\ (w_last.op = "flush" /\ w_last.res = "ok") =>
          /\ sink.received = accepted
          /\ w_fill_count = 0

\* The push of a flush failed at its third write call, after the sink took
\* some bytes in the first two, and bytes are left.
C5_Witness ==
    /\ PushFailed
    /\ w_last.op = "flush"
    /\ w_last.writes = 3
    /\ Len(sink.received) - w_last.pre_received = 2 * SinkChunk
    /\ w_fill_count > 0

(***************************************************************************)
(* SpecStr: read_to_string and read_line, and the raw reads that fetch     *)
(* what they leave in the buffer, on texts and on byte streams that are    *)
(* not UTF-8, delivered whole or byte by byte.                             *)
(***************************************************************************)
\* "€😀": a 3-byte and a 4-byte character
TextWide == <<226, 130, 172, 240, 159, 152, 128>>

\* "é", then 'A's to one byte more than the buffer holds, a newline, "B"
TextLongLine == <<195, 169>> \o [i \in 1..(S - 1) |-> 65] \o <<10, 66>>

ValidTexts ==
    {<<>>, <<65>>, <<65, 10>>, <<195, 169, 10, 10, 66>>, TextShort, TextWide, TextLong,
     TextLongLine}

\* A byte of no leading-byte class (alone, after a character, before more
\* than 4 bytes), a truncated character, a lone continuation byte, an
\* overlong form, a character cut by the newline.
InvalidStreams ==
    {<<255>>, <<65, 255>>, <<65, 195>>, <<169>>, <<192, 128>>, <<226, 130>>,
     <<195, 10>>, <<65, 66, 255, 67, 68, 69, 70>>, <<195, 40, 65, 66, 67, 68>>}

InitStr ==
    \E data \in ValidTexts \cup InvalidStreams, bulk \in BOOLEAN :
        InitRead({Src(data, FALSE, bulk)}, "any")

NextStr == DoReadToString \/ DoReadLine \/ DoTryRead \/ DoRead

SpecStr == InitStr /\ [][NextStr]_vars

\* The last call was read_to_string, made before anything was pulled from the
\* source, with nothing in the buffer.
FirstReadToString ==
    /\ last.op = "read_to_string"
    /\ last.pre_pos = 0
    /\ last.pre_resident = <<>>

\* C6: when the stream is valid UTF-8, a single read_to_string on an empty
\* buffer succeeds, appends exactly the text and returns its length in bytes,
\* however the source cuts the text into chunks.
C6_ReadToStringWholeText ==
    (FirstReadToString /\ read_utf8(source.data)) =>
        /\ last.res = "ok"
        /\ last.out = source.data
        /\ last.n = Len(source.data)

\* A text with 3- and 4-byte characters came in one byte per stream read.
C6_Witness ==
    /\ FirstReadToString
    /\ source.data = TextWide
    /\ last.reads = Len(TextWide) + 1
    /\ last.res = "ok"
    /\ last.out = TextWide

\* C7: after read_to_string returns Ok(n), the n bytes it appended are no
\* longer in the buffer: nothing is resident at end of stream.
C7_ReadToStringConsumes ==
    (last.op = "read_to_string" /\ last.res = "ok") => Available(Buf) = 0

\* C8: when read_to_string has seen the end of the stream and the bytes it
\* withheld are not valid UTF-8, the call returns InvalidData: it neither
\* panics nor returns Ok.
C8_MalformedTailIsInvalidData ==
    ( /\ last.op = "read_to_string"
      /\ source.pos = Len(source.data)
      /\ Available(Buf) <= 4
      /\ ~read_utf8(InternalBuffer(Buf)) )
    => last.res = "invalid"

\* The resident bytes begin with bytes that are not a character.
StartsWithOffending(s) ==
    /\ Len(s) > 0
    /\ \A k \in 1..Min(4, Len(s)) : ~read_utf8(Slice(s, 0, k))

\* C9: when read_to_string or read_line returns InvalidData, what the call
\* appended, then the resident bytes, then the rest of the source are the
\* stream as it was before the call, and the resident bytes start with the
\* offending bytes.
C9_NothingDiscardedOnInvalidData ==
    (last.op \in {"read_to_string", "read_line"} /\ last.res = "invalid") =>
        /\ last.out \o InternalBuffer(Buf)
             \o Slice(source.data, source.pos, Len(source.data))
           = last.pre_resident \o Slice(source.data, last.pre_pos, Len(source.data))
        /\ StartsWithOffending(InternalBuffer(Buf))

(***************************************************************************)
(* SpecLines: a text is read line by line, read_line after read_line until *)
(* one returns 0.                                                          *)
(***************************************************************************)
\* Texts of several lines, with and without a newline at the end
LineTexts ==
    ValidTexts \cup
    {<<10>>, <<10, 10>>, <<65, 66, 67, 68, 69, 10>>, <<65, 66, 67, 68, 69, 70, 71>>,
     <<226, 130, 172, 10, 65>>, <<65, 10, 66, 10, 67, 10, 68, 10>>,
     <<240, 159, 152, 128, 10, 195, 169, 10>>}

InitLines ==
    \E data \in LineTexts, bulk \in BOOLEAN :
        InitRead({Src(data, FALSE, bulk)}, "lines")

LoopReadLine ==
    /\ phase = "lines"
    /\ Call("read_line", 0, 0, ReadLine(Buf, source))
    /\ phase' = IF last'.res # "ok" THEN "failed"
                ELSE IF last'.n = 0 THEN "done" ELSE "lines"
    /\ UNCHANGED <<injected, wvars, dvars>>

NextLines == LoopReadLine

SpecLines == InitLines /\ [][NextLines]_vars

\* C10: reading a valid UTF-8 text with read_line until it returns 0 never
\* fails, and the appended strings, concatenated, are the text, whether or
\* not it ends with a newline.
C10_ReadLineRoundTrip ==
    /\ phase # "failed"
    /\ phase = "done" => delivered = source.data

(***************************************************************************)
(* What a call found unread and what it left unread: the resident bytes    *)
(* followed by the bytes the source has not delivered.                     *)
(***************************************************************************)
SourceRest(pos) == Slice(source.data, pos, Len(source.data))

PreUnread == last.pre_resident \o SourceRest(last.pre_pos)

Unread == InternalBuffer(Buf) \o SourceRest(source.pos)

\* s without its first k elements
Drop(s, k) == Slice(s, k, Len(s))

\* C11: when the unread stream holds a newline and is valid UTF-8 up to it,
\* read_line appends exactly the bytes up to and including the first newline,
\* moves the cursor past them and returns their number; with nothing unread
\* at end of stream it returns 0 without error.
C11_ReadLineFraming ==
    last.op = "read_line" =>
        LET idx == FirstIndexOf(PreUnread, NL)
        IN  /\ (idx >= 0 /\ read_utf8(Slice(PreUnread, 0, idx + 1))) =>
                  /\ last.res = "ok"
                  /\ last.out = Slice(PreUnread, 0, idx + 1)
                  /\ last.n = idx + 1
                  /\ Unread = Drop(PreUnread, idx + 1)
            /\ PreUnread = <<>> =>
                  /\ last.res = "ok"
                  /\ last.n = 0
                  /\ last.out = <<>>

\* A line longer than the buffer, with a 2-byte character, came in several
\* stream reads and was returned whole.
C11_Witness ==
    /\ last.op = "read_line"
    /\ last.res = "ok"
    /\ last.n > S
    /\ last.reads > 2
    /\ last.out = Slice(TextLongLine, 0, S + 2)
    /\ InternalBuffer(Buf) \o SourceRest(source.pos) = <<66>>

\* C12: read makes no stream read when out is empty or bytes are resident,
\* and exactly one when out is not empty and the buffer is; it may return
\* fewer bytes than out holds, without error.
C12_ReadOneStreamRead ==
    last.op = "read" =>
        /\ (last.a1 = 0 \/ last.pre_read_count # last.pre_fill_count) =>
              /\ last.reads = 0
              /\ source.pos = last.pre_pos
              /\ last.res = "ok"
        /\ (last.a1 > 0 /\ last.pre_read_count = last.pre_fill_count) =>
              last.reads = 1
        /\ last.res = "ok" => (last.n <= last.a1 /\ Len(last.out) = last.n)

\* A read into S + 1 bytes on an empty buffer made one stream read and
\* returned fewer bytes than asked for, though the stream has more.
C12_Witness ==
    /\ last.op = "read"
    /\ last.a1 = S + 1
    /\ last.pre_read_count = last.pre_fill_count
    /\ last.reads = 1
    /\ last.res = "ok"
    /\ 0 < last.n
    /\ last.n < last.a1
    /\ source.pos < Len(source.data)

\* C13: a read into a non-empty out returns Ok(0) only when its one stream
\* read returned 0 bytes at the end of the stream; otherwise it returns
\* min(available after the refill, out.len()) >= 1 bytes.
C13_ReadZeroOnlyAtEof ==
    (last.op = "read" /\ last.a1 > 0 /\ last.res = "ok") =>
        LET pulled == source.pos - last.pre_pos
            available == Len(last.pre_resident) + pulled
        IN  IF last.n = 0
            THEN /\ last.reads = 1
                 /\ pulled = 0
                 /\ source.pos = Len(source.data)
            ELSE /\ last.n = Min(available, last.a1)
                 /\ last.n >= 1
                 /\ last.out = Slice(PreUnread, 0, last.n)

\* The cursors stood together behind consumed bytes (read_count = fill_count
\* > 0), the stream had more, and read returned bytes.
C13_Witness ==
    /\ last.op = "read"
    /\ last.a1 > 0
    /\ last.pre_read_count = last.pre_fill_count
    /\ last.pre_fill_count > 0
    /\ last.res = "ok"
    /\ last.n >= 1

\* C14: read_exact returns Ok only with out filled with the next out.len()
\* bytes of the unread stream, in order; it fails with UnexpectedEof exactly
\* when the stream ends before out is full; no other operation returns
\* UnexpectedEof.
C14_ReadExactOutcome ==
    /\ last.res = "eof" => last.op = "read_exact"
    /\ last.op = "read_exact" =>
          /\ last.res \in {"ok", "eof", "err"}
          /\ last.res = "ok" =>
                /\ Len(last.out) = last.a1
                /\ last.out = Slice(PreUnread, 0, last.a1)
                /\ Unread = Drop(PreUnread, last.a1)
          /\ last.res = "eof" =>
                /\ Len(PreUnread) < last.a1
                /\ source.pos = Len(source.data)
          /\ (Len(PreUnread) < last.a1 /\ last.res # "err") => last.res = "eof"

\* read_exact took the resident bytes, went to the stream more than once and
\* met its end with out partly filled.
C14_Witness ==
    /\ last.op = "read_exact"
    /\ last.res = "eof"
    /\ last.pre_resident # <<>>
    /\ Len(last.out) > Len(last.pre_resident)
    /\ last.reads >= 2

\* The shortest prefix of s that ends with byte, or all of s without one
UpToFirst(s, byte) ==
    LET idx == FirstIndexOf(s, byte)
    IN  IF idx >= 0 THEN Slice(s, 0, idx + 1) ELSE s

\* C15: read_until appends the shortest prefix of the unread stream that ends
\* with the delimiter, or all of it when the delimiter does not occur; it
\* returns the number of bytes appended and moves past exactly those bytes;
\* at end of stream with nothing unread it returns 0 and appends nothing.
C15_ReadUntilResult ==
    last.op = "read_until" =>
        /\ last.res \in {"ok", "err"}
        /\ ~source.faulty => last.res = "ok"
        /\ last.res = "ok" =>
              /\ last.out = UpToFirst(PreUnread, last.a1)
              /\ last.n = Len(last.out)
              /\ Unread = Drop(PreUnread, last.n)
              /\ PreUnread = <<>> => (last.n = 0 /\ last.out = <<>>)

\* The delimiter came with a later stream read than the first bytes, and
\* bytes behind it are left unread.
C15_Witness ==
    /\ last.op = "read_until"
    /\ last.res = "ok"
    /\ last.reads >= 3
    /\ last.n >= 3
    /\ last.out[last.n] = last.a1
    /\ Unread # <<>>

\* The first limit elements of s, or all of s when it is shorter
FirstBytes(s, limit) == Slice(s, 0, Min(limit, Len(s)))

\* C16: one read_until_limit appends at most limit bytes and returns the
\* number it appended; what it appended and what is left unread are the
\* unread stream of before, so bytes pulled beyond the limit stay resident;
\* it stops behind the first delimiter among the first limit bytes, and at
\* the limit when there is none (a delimiter that is the limit-th byte is
\* included and the call returns limit).
C16_ReadUntilLimitBound ==
    last.op = "read_until_limit" =>
        /\ last.res \in {"ok", "err"}
        /\ Len(last.out) <= last.a2
        /\ last.out \o Unread = PreUnread
        /\ last.res = "ok" =>
              /\ last.n = Len(last.out)
              /\ last.out = UpToFirst(FirstBytes(PreUnread, last.a2), last.a1)

\* The limit was reached in the second stream read, before any delimiter,
\* and bytes pulled beyond it are resident.
C16_Witness ==
    /\ last.op = "read_until_limit"
    /\ last.res = "ok"
    /\ last.a2 >= 2
    /\ last.n = last.a2
    /\ last.reads >= 2
    /\ FirstIndexOf(last.out, last.a1) = -1
    /\ Available(Buf) > 0

(***************************************************************************)
(* SpecSegments: a stream is cut into segments, read_until_limit after     *)
(* read_until_limit with a limit >= 1, until one returns 0.                *)
(***************************************************************************)
\* The bytes of test_read_until_limit_bug, whose delimiter is 0xB
LimitExample == <<10, 11, 12, 13, 11, 14, 15>>

SegmentLimits == (1..MaxReq) \cup {S, S + 1}

InitSegments ==
    \E data \in {<<>>, LimitExample, RawShort, RawLong}, bulk \in BOOLEAN :
        InitRead({Src(data, FALSE, bulk)}, "segments")

LoopReadUntilLimit ==
    /\ phase = "segments"
    /\ \E byte \in Delimiters \cup {11}, limit \in SegmentLimits :
          Call("read_until_limit", byte, limit,
               ReadUntilLimit(Buf, source, byte, limit))
    /\ phase' = IF last'.res # "ok" THEN "failed"
                ELSE IF last'.n = 0 THEN "done" ELSE "segments"
    /\ UNCHANGED <<injected, wvars, dvars>>

NextSegments == LoopReadUntilLimit

SpecSegments == InitSegments /\ [][NextSegments]_vars

\* C17: successive read_until_limit calls with limit >= 1 never fail; each
\* returns the next segment of the stream, which ends behind the first
\* delimiter, at the limit or at the end of the stream, whichever comes
\* first; the segments concatenated are the source; and on the bytes
\* A,B,C,D,B,E,F with delimiter B and a limit of the capacity the counts are
\* 2, 3, 2.
C17_SegmentsWithoutLoss ==
    /\ phase # "failed"
    /\ delivered = Slice(source.data, 0, Len(delivered))
    /\ phase = "done" => delivered = source.data
    /\ last.op = "read_until_limit" =>
          /\ last.n = Len(last.out)
          /\ last.out = UpToFirst(FirstBytes(PreUnread, last.a2), last.a1)
          /\ last.out \o Unread = PreUnread
          /\ (source.data = LimitExample /\ last.a1 = 11 /\ last.a2 = S) =>
                LET before == Len(delivered) - last.n
                IN  /\ before = 0 => last.n = 2
                    /\ before = 2 => last.n = 3
                    /\ before = 5 => last.n = 2

\* The third segment of the example, 2 bytes, has been returned and the
\* segments so far are the source.
C17_Witness ==
    /\ source.data = LimitExample
    /\ last.op = "read_until_limit"
    /\ last.a1 = 11
    /\ last.a2 = S
    /\ last.n = 2
    /\ last.out = <<14, 15>>
    /\ delivered = LimitExample

\* C18: read_to_end appends the resident bytes followed by all the source
\* has left, in order, returns their number and leaves the buffer empty with
\* read_count = fill_count = 0; with nothing unread, as right after a
\* read_to_end, it returns 0.
C18_ReadToEndDrains ==
    last.op = "read_to_end" =>
        /\ last.res \in {"ok", "err"}
        /\ ~source.faulty => last.res = "ok"
        /\ last.res = "ok" =>
              /\ last.out = PreUnread
              /\ last.n = Len(last.out)
              /\ read_count = 0
              /\ fill_count = 0
              /\ Unread = <<>>
              /\ PreUnread = <<>> => last.n = 0

\* Bytes were resident, the stream had more than one read of bytes left, and
\* read_to_end returned all of them.
C18_Witness ==
    /\ last.op = "read_to_end"
    /\ last.res = "ok"
    /\ last.pre_resident # <<>>
    /\ last.reads >= 3
    /\ last.n > Len(last.pre_resident) + 1
    /\ last.out = PreUnread

\* C19: compact leaves read_count = 0, fill_count equal to the former
\* available() and the resident bytes unchanged; a second compact changes
\* nothing, and compact changes nothing when read_count is 0.
C19_CompactIdempotent ==
    LET c == Compact(Buf)
    IN  /\ c.read_count = 0
        /\ c.fill_count = Available(Buf)
        /\ InternalBuffer(c) = InternalBuffer(Buf)
        /\ Compact(c) = c
        /\ read_count = 0 => c = Buf
        /\ last.op = "compact" =>
              /\ last.res = "ok"
              /\ read_count = 0
              /\ fill_count = last.pre_fill_count - last.pre_read_count
              /\ InternalBuffer(Buf) = last.pre_resident
              /\ source.pos = last.pre_pos
              /\ Compact(Buf) = Buf

\* compact has moved resident bytes from behind consumed ones to offset 0.
C19_Witness ==
    /\ last.op = "compact"
    /\ last.pre_read_count > 0
    /\ last.pre_fill_count > last.pre_read_count + 1
    /\ read_count = 0
    /\ InternalBuffer(Buf) = last.pre_resident

\* C20: fill_buf returns the resident bytes and leaves the read cursor on
\* them; it makes no stream read when bytes are resident and exactly one
\* when none are; at the end of the stream it returns an empty slice and no
\* error.
C20_FillBufPeeks ==
    last.op = "fill_buf" =>
        /\ last.res \in {"ok", "err"}
        /\ ~source.faulty => last.res = "ok"
        /\ last.out = <<>>
        /\ last.pre_resident # <<>> =>
              /\ last.res = "ok"
              /\ last.reads = 0
              /\ source.pos = last.pre_pos
              /\ read_count = last.pre_read_count
              /\ fill_count = last.pre_fill_count
        /\ last.pre_resident = <<>> => last.reads = 1
        /\ last.res = "ok" =>
              /\ last.n = Available(Buf)
              /\ Unread = PreUnread
              /\ PreUnread = <<>> => last.n = 0

\* fill_buf on an empty buffer made one stream read and lends the bytes it
\* brought, all of them still unread.
C20_Witness ==
    /\ last.op = "fill_buf"
    /\ last.res = "ok"
    /\ last.pre_resident = <<>>
    /\ last.reads = 1
    /\ last.n > 0
    /\ last.n = Available(Buf)
    /\ InternalBuffer(Buf) = Slice(source.data, last.pre_pos, source.pos)

(***************************************************************************)
(* SpecConsume: a BufRead-style caller, fill_buf then consume, who may     *)
(* pass consume any usize.                                                 *)
(***************************************************************************)
ConsumeAmounts == Amounts \cup {UsizeMax}

DoConsumeAny ==
    /\ \E amt \in ConsumeAmounts :
          Call("consume", amt, 0, Consume(Buf, source, amt))
    /\ UNCHANGED <<injected, wvars, phase, dvars>>

InitConsume ==
    InitRead({Src(RawShort, FALSE, FALSE), Src(RawLong, FALSE, TRUE)}, "any")

NextConsume ==
    \/ DoFillBuf
    \/ DoConsumeAny

SpecConsume == InitConsume /\ [][NextConsume]_vars

\* C21: consume(n) with n <= available() succeeds, advances read_count by
\* exactly n and leaves fill_count, the buffer contents and the stream as they
\* were; with n > available() it panics and changes no cursor and no byte.
C21_ConsumeEffect ==
    [][last'.op = "consume" =>
          IF last'.a1 <= fill_count - read_count
          THEN /\ last'.res = "ok"
               /\ read_count' = read_count + last'.a1
               /\ fill_count' = fill_count
               /\ buffer' = buffer
               /\ source' = source
          ELSE /\ last'.res = "panic"
               /\ read_count' = read_count
               /\ fill_count' = fill_count
               /\ buffer' = buffer
               /\ source' = source]_vars

\* C22: skip(n) with n <= available() discards exactly the next n resident
\* bytes, so that the next read starts at the (n+1)-th of them, and rewinds
\* both cursors to 0 when n = available(); with n > available() it panics and
\* changes nothing.  It never touches the stream or the stored bytes.
C22_SkipEffect ==
    [][last'.op = "skip" =>
          LET n == last'.a1
              resident == InternalBuffer(Buf)
              after == [buffer |-> buffer', read_count |-> read_count',
                        fill_count |-> fill_count']
          IN  /\ buffer' = buffer
              /\ source' = source
              /\ IF n <= Available(Buf)
                 THEN /\ last'.res = "ok"
                      /\ InternalBuffer(after) = Drop(resident, n)
                      /\ n = Available(Buf) =>
                            (read_count' = 0 /\ fill_count' = 0)
                      /\ n < Available(Buf) =>
                            /\ read_count' = read_count + n
                            /\ fill_count' = fill_count
                            /\ \A o \in TryRead(after, source', 1) :
                                  o.out = <<resident[n + 1]>>
                 ELSE /\ last'.res = "panic"
                      /\ read_count' = read_count
                      /\ fill_count' = fill_count]_vars

\* skip discarded some but not all resident bytes of a buffer whose read
\* cursor was already off zero.
C22_Witness ==
    /\ last.op = "skip"
    /\ last.res = "ok"
    /\ last.a1 = MaxReq
    /\ last.pre_read_count > 0
    /\ Len(last.pre_resident) > last.a1
    /\ read_count = last.pre_read_count + last.a1
    /\ InternalBuffer(Buf) = Drop(last.pre_resident, last.a1)

(***************************************************************************)
(* SpecDirect: a caller that fills the buffer itself, with its own bytes   *)
(* (65, 'A') or by single raw reads, and drains it with try_read and skip, *)
(* as tests/test.rs test_append and test_append_read do.                   *)
(***************************************************************************)
AppendLens == (0..MaxReq) \cup {S - 1, S, S + 1}

AppendData(k) == [i \in 1..k |-> 65]

DoAppend ==
    /\ \E k \in AppendLens :
          Call("copy_into_internal_buffer", k, 0,
               CopyIntoInternalBuffer(Buf, source, AppendData(k)))
    /\ UNCHANGED <<injected, wvars, phase, dvars>>

\* "AB" from a source that dribbles and may fail
RawTiny == <<65, 66>>

InitDirect ==
    InitRead({Src(<<>>, FALSE, TRUE), Src(RawTiny, TRUE, FALSE),
              Src(RawLong, FALSE, TRUE)}, "any")

NextDirect ==
    \/ DoAppend
    \/ DoReadIntoInternalBuffer
    \/ DoTryRead
    \/ DoSkip

SpecDirect == InitDirect /\ [][NextDirect]_vars

\* C23: copy_into_internal_buffer(data) with data.len() <= available_space()
\* = S - fill_count (space before read_count does not count) puts data after
\* the resident bytes, adds data.len() to fill_count and leaves read_count,
\* the bytes before fill_count and the stream alone; empty data on a full
\* buffer succeeds.  With data.len() > available_space() it panics and
\* changes neither cursors nor contents.
C23_CopyIntoPrecondition ==
    [][last'.op = "copy_into_internal_buffer" =>
          LET k == last'.a1
              after == [buffer |-> buffer', read_count |-> read_count',
                        fill_count |-> fill_count']
          IN  /\ source' = source
              /\ read_count' = read_count
              /\ IF k <= S - fill_count
                 THEN /\ last'.res = "ok"
                      /\ fill_count' = fill_count + k
                      /\ InternalBuffer(after) = InternalBuffer(Buf) \o AppendData(k)
                      /\ Slice(buffer', 0, fill_count) = Slice(buffer, 0, fill_count)
                      /\ Slice(buffer', fill_count + k, S) = Slice(buffer, fill_count + k, S)
                 ELSE /\ last'.res = "panic"
                      /\ fill_count' = fill_count
                      /\ buffer' = buffer]_vars

\* A copy that would fit if the consumed space before read_count counted,
\* but does not fit behind fill_count, was refused and changed nothing.
C23_Witness ==
    /\ last.op = "copy_into_internal_buffer"
    /\ last.res = "panic"
    /\ last.pre_read_count > 0
    /\ last.a1 > S - last.pre_fill_count
    /\ last.a1 <= S - (last.pre_fill_count - last.pre_read_count)
    /\ read_count = last.pre_read_count
    /\ fill_count = last.pre_fill_count
    /\ InternalBuffer(Buf) = last.pre_resident
    /\ last.pre_resident # <<>>

\* C24: with available_space() > 0, read_into_internal_buffer makes exactly
\* one stream read into buffer[fill_count..] without compacting, adds the
\* count the stream returned to fill_count and returns it: at most
\* available_space() bytes, and 0 (end of stream) leaves the state as it was.
\* With available_space() = 0 it panics before it calls the stream and
\* changes nothing.
C24_ReadIntoInternalBuffer ==
    [][last'.op = "read_into_internal_buffer" =>
          LET n == last'.n
              space == S - fill_count
          IN  /\ read_count' = read_count
              /\ IF space > 0
                 THEN /\ last'.reads = 1
                      /\ last'.res \in {"ok", "err"}
                      /\ last'.res = "err" =>
                            /\ source.faulty
                            /\ fill_count' = fill_count
                            /\ buffer' = buffer
                            /\ source' = source
                      /\ last'.res = "ok" =>
                            /\ n >= 0
                            /\ n <= space
                            /\ n <= Remaining(source)
                            /\ n = 0 <=> Remaining(source) = 0
                            /\ fill_count' = fill_count + n
                            /\ source' = [source EXCEPT !.pos = source.pos + n]
                            /\ Slice(buffer', fill_count, fill_count + n)
                                  = Slice(source.data, source.pos, source.pos + n)
                            /\ Slice(buffer', 0, fill_count) = Slice(buffer, 0, fill_count)
                            /\ Slice(buffer', fill_count + n, S)
                                  = Slice(buffer, fill_count + n, S)
                            /\ n = 0 => buffer' = buffer
                 ELSE /\ last'.res = "panic"
                      /\ last'.reads = 0
                      /\ fill_count' = fill_count
                      /\ buffer' = buffer
                      /\ source' = source]_vars

\* One raw read behind resident bytes, some of them already consumed, filled
\* the buffer to its end without moving them, and the stream still has bytes.
C24_Witness ==
    /\ last.op = "read_into_internal_buffer"
    /\ last.res = "ok"
    /\ last.reads = 1
    /\ last.pre_read_count > 0
    /\ last.pre_fill_count > last.pre_read_count
    /\ last.n = S - last.pre_fill_count
    /\ last.n > 0
    /\ read_count = last.pre_read_count
    /\ fill_count = S
    /\ Remaining(source) > 0
    /\ InternalBuffer(Buf)
          = last.pre_resident \o Slice(source.data, last.pre_pos, source.pos)

(***************************************************************************)
(* SpecConstruct: construction.  new() of a buffer type of capacity cap    *)
(* yields a buffer or panics; the caller in this specification makes       *)
(* buffers of several capacities and goes on working with the one of       *)
(* capacity S, on which the operations of this module are defined.         *)
(***************************************************************************)
MinCapacity == 16

\* A new() without the assertion on the capacity.
ReadBufferNewUnchecked(cap) ==
    {[buffer |-> Zeroes(cap), read_count |-> 0, fill_count |-> 0]}

\* UnownedReadBuffer::<cap>::new(): the set of buffers made (none: panic)
ReadBufferNew(cap) ==
    LET buf == [buffer |-> Zeroes(cap), read_count |-> 0, fill_count |-> 0]
    IN  IF ~(Len(buf.buffer) >= MinCapacity) THEN {} ELSE {buf}

\* UnownedWriteBuffer::<cap>::new(): the set of buffers made (none: panic)
WriteBufferNew(cap) ==
    LET buf == [buffer |-> Zeroes(cap), fill_count |-> 0]
    IN  IF ~(Len(buf.buffer) >= MinCapacity) THEN {} ELSE {buf}

Capacities == {0, MinCapacity - 1, MinCapacity, S, S + 1}

\* last.n is the capacity of the buffer made
DoNewRead ==
    /\ \E cap \in Capacities :
          LET made == ReadBufferNew(cap)
          IN  /\ IF made = {} \/ cap # S
                 THEN UNCHANGED <<buffer, read_count, fill_count>>
                 ELSE \E b \in made :
                         /\ buffer' = b.buffer
                         /\ read_count' = b.read_count
                         /\ fill_count' = b.fill_count
              /\ last' = [op |-> "UnownedReadBuffer::new", a1 |-> cap, a2 |-> 0,
                          res |-> IF made = {} THEN "panic" ELSE "ok",
                          n |-> IF made = {} THEN 0
                                ELSE Len((CHOOSE b \in made : TRUE).buffer),
                          out |-> <<>>, reads |-> 0,
                          pre_read_count |-> read_count,
                          pre_fill_count |-> fill_count,
                          pre_resident |-> InternalBuffer(Buf),
                          pre_pos |-> source.pos]
    /\ UNCHANGED <<source, delivered, injected, wvars, phase, dvars>>

\* w_last.n is the capacity of the buffer made
DoNewWrite ==
    /\ \E cap \in Capacities :
          LET made == WriteBufferNew(cap)
          IN  /\ IF made = {} \/ cap # S
                 THEN UNCHANGED <<w_buffer, w_fill_count>>
                 ELSE \E w \in made :
                         /\ w_buffer' = w.buffer
                         /\ w_fill_count' = w.fill_count
              /\ w_last' = [op |-> "UnownedWriteBuffer::new", len |-> cap,
                            res |-> IF made = {} THEN "panic" ELSE "ok",
                            n |-> IF made = {} THEN 0
                                  ELSE Len((CHOOSE w \in made : TRUE).buffer),
                            taken |-> 0, writes |-> 0, flushes |-> 0,
                            pre_fill_count |-> w_fill_count,
                            pre_resident |-> WInternalBuffer(WBuf),
                            pre_received |-> Len(sink.received)]
    /\ UNCHANGED <<rvars, sink, accepted, phase, dvars>>

InitConstruct == InitRead({Src(<<>>, FALSE, TRUE)}, "any")

\* The caller works either with read buffers or with write buffers.
NextConstruct ==
    \/ w_last = NoWCall /\ DoNewRead
    \/ w_last = NoWCall /\ DoAppend
    \/ w_last = NoWCall /\ DoSkip
    \/ last = NoCall /\ DoNewWrite
    \/ last = NoCall /\ DoTryWrite

SpecConstruct == InitConstruct /\ [][NextConstruct]_vars

\* C25: constructing a read or a write buffer of capacity below 16 panics
\* and makes no buffer; a buffer that is made has the capacity asked for, at
\* least 16, and all cursors 0 (available() = 0 for the read buffer,
\* flushable() = 0 and available() = capacity for the write buffer); no
\* operation changes the capacity of a buffer.
C25_ConstructionContract ==
    [][/\ Len(buffer) = S /\ Len(buffer') = Len(buffer)
       /\ Len(w_buffer) = S /\ Len(w_buffer') = Len(w_buffer)
       /\ S >= MinCapacity
       /\ NewReadBuffer \in ReadBufferNew(S)
       /\ NewWriteBuffer \in WriteBufferNew(S)
       /\ \A cap \in 0..(S + 1) :
             /\ cap < 16 => (ReadBufferNew(cap) = {} /\ WriteBufferNew(cap) = {})
             /\ cap >= 16 =>
                   /\ Cardinality(ReadBufferNew(cap)) = 1
                   /\ Cardinality(WriteBufferNew(cap)) = 1
             /\ \A b \in ReadBufferNew(cap) :
                   /\ Len(b.buffer) = cap
                   /\ b.read_count = 0 /\ b.fill_count = 0
                   /\ Available(b) = 0
             /\ \A w \in WriteBufferNew(cap) :
                   /\ Len(w.buffer) = cap
                   /\ w.fill_count = 0
                   /\ Flushable(w) = 0
                   /\ WAvailable(w) = cap
       /\ last'.op = "UnownedReadBuffer::new" =>
             IF last'.a1 < 16
             THEN /\ last'.res = "panic"
                  /\ UNCHANGED <<buffer, read_count, fill_count>>
             ELSE /\ last'.res = "ok"
                  /\ last'.n = last'.a1
                  /\ last'.a1 = S =>
                        /\ read_count' = 0 /\ fill_count' = 0
                        /\ fill_count' - read_count' = 0
       /\ w_last'.op = "UnownedWriteBuffer::new" =>
             IF w_last'.len < 16
             THEN /\ w_last'.res = "panic"
                  /\ UNCHANGED <<w_buffer, w_fill_count>>
             ELSE /\ w_last'.res = "ok"
                  /\ w_last'.n = w_last'.len
                  /\ w_last'.len = S =>
                        /\ w_fill_count' = 0
                        /\ Len(w_buffer') - w_fill_count' = S]_vars

\* A buffer type of capacity 15 was asked for after the caller had put
\* bytes into its buffer: the construction panicked.
C25_Witness ==
    /\ last.op = "UnownedReadBuffer::new"
    /\ last.a1 = MinCapacity - 1
    /\ last.res = "panic"
    /\ last.pre_fill_count > 0
    /\ fill_count = last.pre_fill_count

\* C26: after any sequence of try_write, write, write_all and flush (and the
\* pushes they make), on every return path including those that return a sink
\* error, 0 <= fill_count <= S and available() + flushable() = S; no call
\* panics.
C26_WriteCursorInvariant ==
    /\ 0 <= w_fill_count
    /\ w_fill_count <= S
    /\ Len(w_buffer) = S
    /\ WAvailable(WBuf) >= 0
    /\ WAvailable(WBuf) + Flushable(WBuf) = S
    /\ w_last.res \in {"ok", "err"}

\* write_all returned a sink error after the sink had taken part of a full
\* buffer: the rest is resident.
C26_Witness ==
    /\ w_last.op = "write_all"
    /\ w_last.res = "err"
    /\ w_last.pre_fill_count = S
    /\ Len(sink.received) > w_last.pre_received
    /\ 0 < w_fill_count
    /\ w_fill_count < S

\* C27: try_write(data) never touches the sink; it copies the first
\* min(data.len(), available()) bytes of data behind the resident bytes and
\* returns that number (0 when the buffer is full); whenever it returns less
\* than data.len(), the buffer is completely full afterwards.
C27_TryWrite ==
    [][w_last'.op = "try_write" =>
          LET len == w_last'.len
              data == NextData(len)
              k == Min(len, S - w_fill_count)
          IN  /\ sink' = sink
              /\ w_last'.writes = 0
              /\ w_last'.flushes = 0
              /\ w_last'.res = "ok"
              /\ w_last'.n = k
              /\ w_fill_count = S => w_last'.n = 0
              /\ w_fill_count' = w_fill_count + k
              /\ Slice(w_buffer', 0, w_fill_count) = Slice(w_buffer, 0, w_fill_count)
              /\ Slice(w_buffer', w_fill_count, w_fill_count + k) = Slice(data, 0, k)
              /\ accepted' = accepted \o Slice(data, 0, k)
              /\ w_last'.n < len => Len(w_buffer') - w_fill_count' = 0]_vars

\* try_write took only the part of a chunk that fitted behind resident
\* bytes, and the buffer is full.
C27_Witness ==
    /\ w_last.op = "try_write"
    /\ w_last.len = S
    /\ w_last.pre_fill_count > 0
    /\ w_last.pre_fill_count < S
    /\ w_last.n = S - w_last.pre_fill_count
    /\ w_last.n < w_last.len
    /\ WAvailable(WBuf) = 0
    /\ Len(sink.received) = w_last.pre_received

\* C28: write(stream, data) makes no sink call when data is empty or the
\* buffer had room for at least one byte on entry; when the buffer was full
\* it pushes once (on success the sink has received exactly the bytes that
\* were resident, and the buffer holds only what was copied after) and it
\* never calls the sink's flush; on success with non-empty data it returns a
\* count from 1 to data.len(), the length of the prefix of data now resident.
C28_WritePushesOnlyWhenFull ==
    [][w_last'.op = "write" =>
          LET len == w_last'.len
              data == NextData(len)
              n == w_last'.n
              full == (w_fill_count = S)
              resident == WInternalBuffer(WBuf)
              after == WInternalBuffer([buffer |-> w_buffer',
                                        fill_count |-> w_fill_count'])
          IN  /\ w_last'.flushes = 0
              /\ w_last'.res \in {"ok", "err"}
              /\ (len = 0 \/ ~full) =>
                    /\ w_last'.writes = 0
                    /\ sink' = sink
                    /\ w_last'.res = "ok"
              /\ len = 0 => (n = 0 /\ after = resident)
              /\ (len > 0 /\ ~full) =>
                    /\ n = Min(len, S - w_fill_count)
                    /\ after = resident \o Slice(data, 0, n)
              /\ (len > 0 /\ full) =>
                    /\ w_last'.writes >= 1
                    /\ w_last'.res = "ok" =>
                          /\ sink'.received = sink.received \o resident
                          /\ n = Min(len, S)
                          /\ after = Slice(data, 0, n)
                    /\ w_last'.res = "err" =>
                          /\ n = 0
                          /\ accepted' = accepted
                          /\ sink.received \o resident = sink'.received \o after
              /\ (w_last'.res = "ok" /\ len > 0) =>
                    /\ 1 <= n /\ n <= len
                    /\ accepted' = accepted \o Slice(data, 0, n)]_vars

\* write on a full buffer pushed it out in several sink write calls, then
\* took its chunk into the emptied buffer.
C28_Witness ==
    /\ w_last.op = "write"
    /\ w_last.res = "ok"
    /\ w_last.pre_fill_count = S
    /\ w_last.len = MaxReq
    /\ w_last.writes > 1
    /\ w_last.flushes = 0
    /\ w_last.n = MaxReq
    /\ Len(sink.received) = w_last.pre_received + S
    /\ w_fill_count = MaxReq

\* The only sink call of the last call was a write, and it failed.
FirstWriteFailed ==
    /\ w_last.res = "err"
    /\ w_last.writes = 1
    /\ w_last.flushes = 0

\* C29 as stated: when the first sink write call of a flush, write or
\* write_all (of the push it makes) returns an error, the error is returned
\* and fill_count and the resident bytes are exactly as before the call; a
\* push on an empty buffer makes no sink write call.
C29_AsStated ==
    /\ FirstWriteFailed =>
          /\ Len(sink.received) = w_last.pre_received
          /\ w_fill_count = w_last.pre_fill_count
          /\ WInternalBuffer(WBuf) = w_last.pre_resident
    /\ (w_last.op = "flush" /\ w_last.pre_fill_count = 0) => w_last.writes = 0

\* C29, amended: when the first sink write call of a flush or write fails,
\* the error is returned, nothing has reached the sink and fill_count and the
\* resident bytes are exactly as before the call; for write_all the same
\* holds of the push, not of the call: the bytes resident before the call
\* are still first, followed by the bytes of data that write_all copied to
\* fill the buffer before it pushed, so fill_count = S.  A push on an empty
\* buffer makes no sink write call.
C29_ImmediateFailure ==
    /\ FirstWriteFailed =>
          /\ Len(sink.received) = w_last.pre_received
          /\ w_last.op \in {"flush", "write", "write_all"}
          /\ w_last.op \in {"flush", "write"} =>
                /\ w_fill_count = w_last.pre_fill_count
                /\ WInternalBuffer(WBuf) = w_last.pre_resident
                /\ w_last.taken = 0
          /\ w_last.op = "write" => w_last.pre_fill_count = S
          /\ w_last.op = "write_all" =>
                /\ w_fill_count = S
                /\ w_last.taken = S - w_last.pre_fill_count
                /\ Slice(WInternalBuffer(WBuf), 0, w_last.pre_fill_count)
                      = w_last.pre_resident
                /\ Slice(WInternalBuffer(WBuf), w_last.pre_fill_count, S)
                      = Slice(accepted, Len(accepted) - w_last.taken, Len(accepted))
    /\ (w_last.op = "flush" /\ w_last.pre_fill_count = 0) => w_last.writes = 0

\* write_all filled the buffer with the first bytes of its chunk, and the
\* first write call of the push it then made failed: those bytes stay.
C29_Witness ==
    /\ FirstWriteFailed
    /\ w_last.op = "write_all"
    /\ w_last.pre_fill_count < S
    /\ w_last.pre_fill_count > 0
    /\ w_last.taken > 0
    /\ w_last.taken < w_last.len
    /\ w_fill_count = S
    /\ Len(sink.received) = w_last.pre_received

\* C30: flush calls the sink's flush at most once and only after the sink's
\* write calls have accepted every resident byte, with fill_count = 0; when
\* the push fails the sink's flush is not called and the error is returned;
\* when the sink's flush fails its error is returned and the buffer is
\* already empty.
C30_FlushOrdering ==
    w_last.op = "flush" =>
        LET sent == Len(sink.received) - w_last.pre_received
        IN  /\ w_last.flushes \in {0, 1}
            /\ w_last.res \in {"ok", "err"}
            /\ w_last.flushes = 1 =>
                  /\ w_fill_count = 0
                  /\ sent = w_last.pre_fill_count
                  /\ Slice(sink.received, w_last.pre_received, Len(sink.received))
                        = w_last.pre_resident
                  /\ sink.received = accepted
            /\ sent < w_last.pre_fill_count =>
                  /\ w_last.flushes = 0
                  /\ w_last.res = "err"
                  /\ w_fill_count = w_last.pre_fill_count - sent
            /\ w_last.flushes = 0 => (w_last.res = "err" /\ w_fill_count > 0)
            /\ w_last.res = "ok" => w_last.flushes = 1

\* The sink took the resident bytes in several write calls and then failed
\* to flush: the error is returned and the buffer is empty.
C30_Witness ==
    /\ w_last.op = "flush"
    /\ w_last.res = "err"
    /\ w_last.flushes = 1
    /\ w_last.writes > 1
    /\ w_last.pre_fill_count > SinkChunk
    /\ w_fill_count = 0
    /\ sink.received = accepted

\* C31: write_all returns Ok only when every byte of data is resident or has
\* been handed to the sink, in order and after the bytes buffered before;
\* it makes no sink call when data fits in the free capacity and never calls
\* the sink's flush; for data of any length, what the call sent to the sink
\* followed by the resident bytes is the formerly resident bytes followed by
\* data (by the part of data taken, when the call fails).
C31_WriteAllAccountsForAll ==
    w_last.op = "write_all" =>
        LET sent == Slice(sink.received, w_last.pre_received, Len(sink.received))
            took == Slice(accepted, Len(accepted) - w_last.taken, Len(accepted))
        IN  /\ w_last.res \in {"ok", "err"}
            /\ w_last.flushes = 0
            /\ w_last.taken <= w_last.len
            /\ sent \o WInternalBuffer(WBuf) = w_last.pre_resident \o took
            /\ w_last.res = "ok" => w_last.taken = w_last.len
            /\ w_last.len <= S - w_last.pre_fill_count =>
                  /\ w_last.res = "ok"
                  /\ w_last.writes = 0
                  /\ sent = <<>>
                  /\ w_fill_count = w_last.pre_fill_count + w_last.len
            /\ w_last.res = "err" => w_last.writes >= 1

\* write_all of more than a buffer full, on a buffer that held bytes, went
\* through several sink write calls and placed every byte.
C31_Witness ==
    /\ w_last.op = "write_all"
    /\ w_last.res = "ok"
    /\ w_last.len > S
    /\ w_last.pre_fill_count > 0
    /\ w_last.writes > 1
    /\ w_last.taken = w_last.len
    /\ Len(sink.received) > w_last.pre_received + w_last.pre_fill_count
    /\ w_fill_count > 0

(***************************************************************************)
(* SpecErrors: the operations that go to the stream, on sources and a sink *)
(* any of whose calls may fail.                                            *)
(***************************************************************************)
InitErrors ==
    /\ buffer = NewReadBuffer.buffer
    /\ read_count = NewReadBuffer.read_count
    /\ fill_count = NewReadBuffer.fill_count
    /\ source \in {Src(TextShort, TRUE, FALSE), Src(BytesBad, TRUE, FALSE),
                   Src(<<>>, TRUE, FALSE)}
    /\ delivered = <<>>
    /\ injected = 0
    /\ last = NoCall
    /\ InitWrite({Snk(TRUE, SinkChunk)})
    /\ phase = "any"
    /\ NoThreads

\* The caller works either with the read buffer or with the write buffer.
NextErrors ==
    \/ w_last = NoWCall /\ DoRead
    \/ w_last = NoWCall /\ DoReadExact
    \/ w_last = NoWCall /\ DoReadUntil
    \/ w_last = NoWCall /\ DoReadUntilLimit
    \/ w_last = NoWCall /\ DoReadToEnd
    \/ w_last = NoWCall /\ DoReadToString
    \/ w_last = NoWCall /\ DoReadLine
    \/ w_last = NoWCall /\ DoFillBuf
    \/ w_last = NoWCall /\ DoEnsureReadable
    \/ w_last = NoWCall /\ DoReadIntoInternalBuffer
    \/ last = NoCall /\ DoWrite
    \/ last = NoCall /\ DoWriteAll
    \/ last = NoCall /\ DoFlush

SpecErrors == InitErrors /\ [][NextErrors]_vars

\* The outcomes of the read-buffer operation op(a1, a2) that goes to the stream
StreamOpOutcomes(op, a1, a2, b, src) ==
    CASE op = "read" -> Read(b, src, a1)
      [] op = "read_exact" -> ReadExact(b, src, a1)
      [] op = "read_until" -> ReadUntil(b, src, a1)
      [] op = "read_until_limit" -> ReadUntilLimit(b, src, a1, a2)
      [] op = "read_to_end" -> ReadToEnd(b, src)
      [] op = "read_to_string" -> ReadToString(b, src)
      [] op = "read_line" -> ReadLine(b, src)
      [] op = "fill_buf" -> FillBuf(b, src)
      [] op = "ensure_readable" -> EnsureReadable(b, src)
      [] op = "read_into_internal_buffer" -> ReadIntoInternalBuffer(b, src)
      [] OTHER -> {}

\* The source as it is when none of its reads fails
Reliable(src) == [src EXCEPT !.faulty = FALSE]

\* The source when it ends at pos and none of its reads fails
EndingAt(src, pos) == [src EXCEPT !.data = Slice(src.data, 0, pos), !.faulty = FALSE]

\* The number of write calls in which a sink that takes chunk bytes per call
\* takes `bytes` bytes pushed from buffers of `push` bytes each
WritesFor(bytes, push, chunk) ==
    IF push = 0 THEN 0
    ELSE (bytes \div push) * ((push + chunk - 1) \div chunk)
         + ((bytes % push) + chunk - 1) \div chunk

\* C32: when a stream read, write or flush call returns an error during an
\* operation, the operation returns that error and makes no further call to
\* the stream.  For the read buffer: a result other than the stream error is
\* one the operation has when no read fails, with as many reads; a stream
\* error is returned after exactly the reads the operation makes when the
\* stream ends where the failing read found it (the failing read is its
\* last), and leaves the source where it was.  For the write buffer: a call
\* that succeeds made exactly the write calls the sink needed; a call that
\* returns an error of a write made one write call beyond those that took
\* bytes, and no flush; flush is the last call of the operation flush.
C32_ErrorsPropagateWithoutRetry ==
    [][/\ last'.op \notin {"new"} /\ last' # last =>
             LET o == [b |-> [buffer |-> buffer', read_count |-> read_count',
                              fill_count |-> fill_count'],
                       src |-> source', res |-> last'.res, n |-> last'.n,
                       out |-> last'.out, reads |-> last'.reads]
             IN  IF o.res = "err"
                 THEN /\ o.reads >= 1
                      /\ \E e \in StreamOpOutcomes(last'.op, last'.a1, last'.a2, Buf,
                                                   EndingAt(source, o.src.pos)) :
                            /\ e.reads = o.reads
                            /\ e.src.pos = o.src.pos
                 ELSE [o EXCEPT !.src = Reliable(@)]
                         \in StreamOpOutcomes(last'.op, last'.a1, last'.a2, Buf,
                                              Reliable(source))
       /\ w_last'.op \notin {"new"} /\ w_last' # w_last =>
             LET sent == Len(sink'.received) - Len(sink.received)
                 push == IF w_last'.op = "flush" THEN w_fill_count ELSE S
             IN  /\ w_last'.op # "flush" => w_last'.flushes = 0
                 /\ w_last'.res = "ok" =>
                       /\ w_last'.writes = WritesFor(sent, push, sink.chunk)
                       /\ w_last'.op = "flush" =>
                             (w_last'.flushes = 1 /\ sent = w_fill_count)
                 /\ (w_last'.res = "err" /\ w_last'.flushes = 1) =>
                       /\ sent = w_fill_count
                       /\ w_last'.writes = WritesFor(sent, push, sink.chunk)
                 /\ (w_last'.res = "err" /\ w_last'.flushes = 0) =>
                       /\ (sent % push) % sink.chunk = 0
                       /\ w_last'.writes = WritesFor(sent, push, sink.chunk) + 1
                       /\ w_last'.op = "flush" => sent < w_fill_count]_vars

\* read_exact made two reads that brought bytes and a third that failed: it
\* returned the error with the bytes of the first two resident or copied.
C32_Witness ==
    /\ last.op = "read_exact"
    /\ last.res = "err"
    /\ last.reads = 3
    /\ source.pos = last.pre_pos + 2
    /\ last.a1 > 2

(***************************************************************************)
(* The borrowed adapters: a buffer together with the stream it is used on. *)
(***************************************************************************)
\* UnownedReadBuffer::borrow(read): the adapter is the two references
BorrowedReadBuffer(b, src) == [buffer |-> b, read |-> src]

\* UnownedWriteBuffer::borrow(write)
BorrowedWriteBuffer(w, snk) == [buffer |-> w, write |-> snk]

\* An adapter whose read_exact forwards to the engine's read
BorrowedReadExactAsRead(a, len) == Read(a.buffer, a.read, len)

\* impl Read for BorrowedReadBuffer
BorrowedRead(a, len) == Read(a.buffer, a.read, len)

BorrowedReadToEnd(a) == ReadToEnd(a.buffer, a.read)

BorrowedReadToString(a) == ReadToString(a.buffer, a.read)

BorrowedReadExact(a, len) == ReadExact(a.buffer, a.read, len)

\* impl BufRead for BorrowedReadBuffer
BorrowedFillBuf(a) == FillBuf(a.buffer, a.read)

BorrowedConsume(a, amt) == Consume(a.buffer, a.read, amt)

BorrowedReadUntil(a, byte) == ReadUntil(a.buffer, a.read, byte)

BorrowedReadLine(a) == ReadLine(a.buffer, a.read)

\* impl Write for BorrowedWriteBuffer
BorrowedWrite(a, data) == Write(a.buffer, a.write, data)

BorrowedFlush(a) == Flush(a.buffer, a.write)

BorrowedWriteAll(a, data) == WriteAll(a.buffer, a.write, data)

DoBorrowedRead ==
    /\ \E len \in ReadLens :
          Call("BorrowedReadBuffer::read", len, 0,
               BorrowedRead(BorrowedReadBuffer(Buf, source), len))
    /\ UNCHANGED <<injected, wvars, phase, dvars>>

DoBorrowedReadToEnd ==
    /\ Call("BorrowedReadBuffer::read_to_end", 0, 0,
            BorrowedReadToEnd(BorrowedReadBuffer(Buf, source)))
    /\ UNCHANGED <<injected, wvars, phase, dvars>>

DoBorrowedReadToString ==
    /\ Call("BorrowedReadBuffer::read_to_string", 0, 0,
            BorrowedReadToString(BorrowedReadBuffer(Buf, source)))
    /\ UNCHANGED <<injected, wvars, phase, dvars>>

DoBorrowedReadExact ==
    /\ \E len \in ReadLens :
          Call("BorrowedReadBuffer::read_exact", len, 0,
               BorrowedReadExact(BorrowedReadBuffer(Buf, source), len))
    /\ UNCHANGED <<injected, wvars, phase, dvars>>

DoBorrowedFillBuf ==
    /\ Call("BorrowedReadBuffer::fill_buf", 0, 0,
            BorrowedFillBuf(BorrowedReadBuffer(Buf, source)))
    /\ UNCHANGED <<injected, wvars, phase, dvars>>

DoBorrowedConsume ==
    /\ \E amt \in Amounts :
          Call("BorrowedReadBuffer::consume", amt, 0,
               BorrowedConsume(BorrowedReadBuffer(Buf, source), amt))
    /\ UNCHANGED <<injected, wvars, phase, dvars>>

DoBorrowedReadUntil ==
    /\ \E byte \in Delimiters :
          Call("BorrowedReadBuffer::read_until", byte, 0,
               BorrowedReadUntil(BorrowedReadBuffer(Buf, source), byte))
    /\ UNCHANGED <<injected, wvars, phase, dvars>>

DoBorrowedReadLine ==
    /\ Call("BorrowedReadBuffer::read_line", 0, 0,
            BorrowedReadLine(BorrowedReadBuffer(Buf, source)))
    /\ UNCHANGED <<injected, wvars, phase, dvars>>

DoBorrowedWrite ==
    /\ \E len \in DataLens :
          /\ HasData(len)
          /\ WCall("BorrowedWriteBuffer::write", NextData(len),
                   BorrowedWrite(BorrowedWriteBuffer(WBuf, sink), NextData(len)))
    /\ UNCHANGED <<rvars, phase, dvars>>

DoBorrowedFlush ==
    /\ WCall("BorrowedWriteBuffer::flush", <<>>,
             BorrowedFlush(BorrowedWriteBuffer(WBuf, sink)))
    /\ UNCHANGED <<rvars, phase, dvars>>

DoBorrowedWriteAll ==
    /\ \E len \in DataLens :
          /\ HasData(len)
          /\ WCall("BorrowedWriteBuffer::write_all", NextData(len),
                   BorrowedWriteAll(BorrowedWriteBuffer(WBuf, sink), NextData(len)))
    /\ UNCHANGED <<rvars, phase, dvars>>

(***************************************************************************)
(* SpecBorrowed: the buffers used only through their adapters.             *)
(***************************************************************************)
InitBorrowed ==
    /\ buffer = NewReadBuffer.buffer
    /\ read_count = NewReadBuffer.read_count
    /\ fill_count = NewReadBuffer.fill_count
    /\ source \in {Src(TextShort, TRUE, FALSE), Src(BytesBad, TRUE, FALSE)}
    /\ delivered = <<>>
    /\ injected = 0
    /\ last = NoCall
    /\ InitWrite({Snk(TRUE, SinkChunk)})
    /\ phase = "any"
    /\ NoThreads

NextBorrowed ==
    \/ w_last = NoWCall /\ DoBorrowedRead
    \/ w_last = NoWCall /\ DoBorrowedReadToEnd
    \/ w_last = NoWCall /\ DoBorrowedReadToString
    \/ w_last = NoWCall /\ DoBorrowedReadExact
    \/ w_last = NoWCall /\ DoBorrowedFillBuf
    \/ w_last = NoWCall /\ DoBorrowedConsume
    \/ w_last = NoWCall /\ DoBorrowedReadUntil
    \/ w_last = NoWCall /\ DoBorrowedReadLine
    \/ last = NoCall /\ DoBorrowedWrite
    \/ last = NoCall /\ DoBorrowedFlush
    \/ last = NoCall /\ DoBorrowedWriteAll

SpecBorrowed == InitBorrowed /\ [][NextBorrowed]_vars

\* The engine operation of the read buffer behind the adapter's method op
EngineReadOutcomes(op, a1, a2, b, src) ==
    CASE op = "BorrowedReadBuffer::read" -> Read(b, src, a1)
      [] op = "BorrowedReadBuffer::read_to_end" -> ReadToEnd(b, src)
      [] op = "BorrowedReadBuffer::read_to_string" -> ReadToString(b, src)
      [] op = "BorrowedReadBuffer::read_exact" -> ReadExact(b, src, a1)
      [] op = "BorrowedReadBuffer::fill_buf" -> FillBuf(b, src)
      [] op = "BorrowedReadBuffer::consume" -> Consume(b, src, a1)
      [] op = "BorrowedReadBuffer::read_until" -> ReadUntil(b, src, a1)
      [] op = "BorrowedReadBuffer::read_line" -> ReadLine(b, src)
      [] OTHER -> {}

\* The engine operation of the write buffer behind the adapter's method op
EngineWriteOutcomes(op, data, w, snk) ==
    CASE op = "BorrowedWriteBuffer::write" -> Write(w, snk, data)
      [] op = "BorrowedWriteBuffer::flush" -> Flush(w, snk)
      [] op = "BorrowedWriteBuffer::write_all" -> WriteAll(w, snk, data)
      [] OTHER -> {}

\* C33: an operation made through a borrowed adapter has the result, and
\* leaves the buffer (contents and cursors) and the stream, as the engine
\* operation of the same name does when called with that buffer and that
\* stream; nothing but the buffer and the stream carries over to the next
\* call.
C33_BorrowedIsPassThrough ==
    [][/\ last' # last =>
             [b |-> [buffer |-> buffer', read_count |-> read_count',
                     fill_count |-> fill_count'],
              src |-> source', res |-> last'.res, n |-> last'.n,
              out |-> last'.out, reads |-> last'.reads]
                \in EngineReadOutcomes(last'.op, last'.a1, last'.a2, Buf, source)
       /\ w_last' # w_last =>
             [w |-> [buffer |-> w_buffer', fill_count |-> w_fill_count'],
              snk |-> sink', res |-> w_last'.res, n |-> w_last'.n,
              taken |-> w_last'.taken, writes |-> w_last'.writes,
              flushes |-> w_last'.flushes]
                \in EngineWriteOutcomes(w_last'.op, NextData(w_last'.len),
                                        WBuf, sink)]_vars

\* read_exact through the adapter, with fewer bytes left in the stream than it
\* was asked for, reported the end of the stream after the reads the engine
\* makes.
C33_Witness ==
    /\ last.op = "BorrowedReadBuffer::read_exact"
    /\ last.res = "eof"
    /\ last.reads >= 2

(***************************************************************************)
(* DuplexBufferedTcpStream: one stream, a read buffer and a write buffer,  *)
(* each in its own Mutex, shared by several threads.  A thread is "idle"   *)
(* (outside every call) or inside read, write or flush with the guard of   *)
(* the buffer's mutex; the engine operation happens before the guard is    *)
(* dropped, and a read blocked in the stream is a thread that stays inside.*)
(***************************************************************************)
\* A duplex in which read_buf guards both buffers
LockOfShared(op) == "read_buf"

\* The mutex a method of DuplexBufferedTcpStream locks
LockOf(op) == IF op = "read" THEN "read_buf" ELSE "write_buf"

\* The bytes all the threads together write
DuplexBudget == 2 * MaxReq

\* try_lock().map_err(|_| WouldBlock)?: the thread gets the guard and goes on
\* into the operation, or returns WouldBlock at once.
DuplexEnter(t, op) ==
    /\ thread[t].pc = "idle"
    /\ IF mutex[LockOf(op)] = 0
       THEN /\ mutex' = [mutex EXCEPT ![LockOf(op)] = t]
            /\ thread' = [thread EXCEPT ![t] = [pc |-> op, op |-> op, res |-> "none"]]
       ELSE /\ thread' = [thread EXCEPT
                            ![t] = [pc |-> "idle", op |-> op, res |-> "would_block"]]
            /\ UNCHANGED mutex

\* The end of the statement: the result is returned and the guard dropped.
DuplexLeave(t, op, res) ==
    /\ mutex' = [mutex EXCEPT ![LockOf(op)] = 0]
    /\ thread' = [thread EXCEPT ![t] = [pc |-> "idle", op |-> op, res |-> res]]

DuplexRead ==
    /\ \E t \in Threads : DuplexEnter(t, "read")
    /\ UNCHANGED <<rvars, wvars, phase>>

DuplexWrite ==
    /\ Len(accepted) + MaxReq <= DuplexBudget
    /\ \E t \in Threads : DuplexEnter(t, "write")
    /\ UNCHANGED <<rvars, wvars, phase>>

DuplexFlush ==
    /\ \E t \in Threads : DuplexEnter(t, "flush")
    /\ UNCHANGED <<rvars, wvars, phase>>

DuplexReadReturn ==
    /\ \E t \in Threads :
          /\ thread[t].pc = "read"
          /\ Call("read", MaxReq, 0, Read(Buf, source, MaxReq))
          /\ DuplexLeave(t, "read", last'.res)
    /\ UNCHANGED <<injected, wvars, phase>>

DuplexWriteReturn ==
    /\ \E t \in Threads :
          /\ thread[t].pc = "write"
          /\ WCall("write", NextData(MaxReq), Write(WBuf, sink, NextData(MaxReq)))
          /\ DuplexLeave(t, "write", w_last'.res)
    /\ UNCHANGED <<rvars, phase>>

DuplexFlushReturn ==
    /\ \E t \in Threads :
          /\ thread[t].pc = "flush"
          /\ WCall("flush", <<>>, Flush(WBuf, sink))
          /\ DuplexLeave(t, "flush", w_last'.res)
    /\ UNCHANGED <<rvars, phase>>

InitDuplex ==
    /\ buffer = NewReadBuffer.buffer
    /\ read_count = NewReadBuffer.read_count
    /\ fill_count = NewReadBuffer.fill_count
    /\ source = Src(RawTiny, FALSE, FALSE)
    /\ delivered = <<>>
    /\ injected = 0
    /\ last = NoCall
    /\ InitWrite({Snk(FALSE, SinkChunk)})
    /\ phase = "any"
    /\ NoThreads

NextDuplex ==
    \/ DuplexRead
    \/ DuplexWrite
    \/ DuplexFlush
    \/ DuplexReadReturn
    \/ DuplexWriteReturn
    \/ DuplexFlushReturn

SpecDuplex == InitDuplex /\ [][NextDuplex]_vars

\* The threads inside an operation on the read buffer / on the write buffer
InsideReadBuf == {t \in Threads : thread[t].pc = "read"}
InsideWriteBuf == {t \in Threads : thread[t].pc \in {"write", "flush"}}

\* C34: in the duplex pattern (each buffer in its own mutex, taken with
\* try_lock) at most one thread is inside an operation on a buffer; a thread
\* that calls while another is inside an operation on the same buffer
\* returns WouldBlock in that step, and the step changes neither buffer nor
\* the stream; a write or flush called while no thread is inside write or
\* flush goes on into the operation whether or not a read is in progress,
\* and an operation in progress on the write buffer can finish while a read
\* is in progress.
C34_DuplexLocking ==
    /\ [](/\ Cardinality(InsideReadBuf) <= 1
          /\ Cardinality(InsideWriteBuf) <= 1
          /\ \A t \in InsideWriteBuf :
                IF thread[t].pc = "write" THEN ENABLED DuplexWriteReturn
                ELSE ENABLED DuplexFlushReturn)
    /\ [][\A t \in Threads :
            (thread[t].pc = "idle" /\ thread'[t] # thread[t]) =>
               LET op == thread'[t].op
                   busy == IF op = "read" THEN InsideReadBuf ELSE InsideWriteBuf
               IN  IF busy # {}
                   THEN /\ thread'[t] = [pc |-> "idle", op |-> op,
                                         res |-> "would_block"]
                        /\ UNCHANGED <<buffer, read_count, fill_count, source,
                                       w_buffer, w_fill_count, sink, mutex>>
                   ELSE thread'[t].pc = op]_vars

\* While thread 1 is inside read, thread 2 has written and flushed, and
\* thread 3, calling read, got WouldBlock.
C34_Witness ==
    /\ thread[1].pc = "read"
    /\ thread[2] = [pc |-> "idle", op |-> "flush", res |-> "ok"]
    /\ thread[3] = [pc |-> "idle", op |-> "read", res |-> "would_block"]
    /\ Len(sink.received) > 0
    /\ last = NoCall

\* C35: try_read and read copy from the resident bytes (for read on an empty
\* buffer: from the bytes its one feed brought to the start of the buffer).
\* When fewer bytes are resident than asked for, all of them are copied and
\* both cursors become 0; otherwise exactly the bytes asked for are copied,
\* read_count advances by that number and fill_count stays, also when this
\* takes the last resident byte.  try_read makes no call to the stream, and
\* returns 0 and changes nothing when the request or the buffer is empty.
C35_ReadCursorEffect ==
    [][(last'.op \in {"try_read", "read"} /\ last'.res = "ok") =>
          LET len == last'.a1
              fed == last'.op = "read" /\ len > 0 /\ Available(Buf) = 0
              resident == IF fed THEN Slice(source.data, source.pos, source'.pos)
                          ELSE InternalBuffer(Buf)
              base == IF fed THEN 0 ELSE read_count
              top == IF fed THEN Len(resident) ELSE fill_count
          IN  /\ last'.op = "try_read" => (last'.reads = 0 /\ source' = source)
              /\ last'.reads = IF fed THEN 1 ELSE 0
              /\ last'.n = Len(last'.out)
              /\ IF len = 0 \/ resident = <<>>
                 THEN /\ last'.n = 0
                      /\ ~fed => UNCHANGED <<buffer, read_count, fill_count, source>>
                 ELSE IF Len(resident) < len
                 THEN /\ last'.out = resident
                      /\ read_count' = 0
                      /\ fill_count' = 0
                 ELSE /\ last'.out = Slice(resident, 0, len)
                      /\ read_count' = base + len
                      /\ fill_count' = top
                      /\ Slice(buffer', read_count', fill_count')
                            = Slice(resident, len, Len(resident))]_vars

\* try_read took exactly the resident bytes, which did not start at the
\* beginning of the buffer: both cursors stand at the old fill_count.
C35_Witness ==
    /\ last.op = "try_read"
    /\ last.a1 = Len(last.pre_resident)
    /\ last.a1 > 0
    /\ last.pre_read_count > 0
    /\ read_count = last.pre_fill_count
    /\ fill_count = last.pre_fill_count

\* C36: when read_line returns Ok, the bytes that were resident before the
\* call followed by the bytes the call pulled from the source are the bytes
\* it appended followed by the bytes resident after it: what it pulled and
\* did not append is resident, in stream order, also when the stream ended
\* without a newline.  A read or try_read that follows returns the first of
\* these resident bytes, before anything it pulls itself.
C36_ReadLineKeepsWithheldBytes ==
    [][/\ (last'.op = "read_line" /\ last'.res = "ok") =>
             /\ InternalBuffer(Buf) \o Slice(source.data, source.pos, source'.pos)
                   = last'.out \o Slice(buffer', read_count', fill_count')
             /\ last'.n = Len(last'.out)
       /\ (/\ last.op = "read_line" /\ last.res = "ok"
           /\ last'.op \in {"read", "try_read"}
           /\ Available(Buf) > 0) =>
             /\ last'.res = "ok"
             /\ last'.reads = 0
             /\ last'.out = Slice(InternalBuffer(Buf), 0,
                                  Min(last'.a1, Available(Buf)))
             /\ Slice(buffer', read_count', fill_count')
                   = Slice(InternalBuffer(Buf), Len(last'.out), Available(Buf))]_vars

\* read_line reached the end of a stream that has no newline, returned Ok
\* short of the bytes it pulled, and the bytes it held back are resident.
C36_Witness ==
    /\ last.op = "read_line"
    /\ last.res = "ok"
    /\ last.reads >= 2
    /\ source.pos = Len(source.data)
    /\ FirstIndexOf(source.data, NL) < 0
    /\ Len(last.out) > 0
    /\ Available(Buf) > 0
    /\ last.out \o InternalBuffer(Buf) = source.data

(***************************************************************************)
(* The iterations of the looping operations, for what holds at each of     *)
(* their calls of feed.                                                    *)
(***************************************************************************)
\* The operations with a loop that calls feed
LoopOps == {"read_exact", "read_until", "read_until_limit", "read_to_end",
            "read_to_string", "read_line"}

\* The operations that call feed once, in front of everything else
SingleFeedOps == {"read", "fill_buf", "ensure_readable"}

\* What the operation does before its loop: the first feed, if any
LoopStart(op, a1, a2, b, src) ==
    CASE op = "read_exact" ->
           IF a1 = 0 THEN {}
           ELSE IF Available(b) = 0
           THEN { Outcome(f.b, f.src,
                          IF f.got = "err" THEN "err"
                          ELSE IF f.got = "false" THEN "eof" ELSE "run",
                          0, <<>>, 1)
                : f \in Feed(b, src) }
           ELSE {Outcome(b, src, "run", 0, <<>>, 0)}
      [] op = "read_until_limit" -> IF a2 = 0 THEN {} ELSE FirstFeed(b, src)
      [] OTHER -> FirstFeed(b, src)

\* One iteration of the operation's loop
LoopBody(op, a1, a2, c) ==
    CASE op = "read_exact" -> ReadExactBody(c, a1)
      [] op = "read_until" -> ReadUntilBody(c, a1)
      [] op = "read_until_limit" -> ReadUntilLimitBody(c, a1, a2)
      [] op = "read_to_end" -> ReadToEndBody(c)
      [] op = "read_to_string" -> ReadToStringBody(c)
      [] op = "read_line" -> ReadLineBody(c)
      [] OTHER -> {}

\* The iterations <<c, d>> the operation can make from the configurations cs
RECURSIVE LoopSteps(_, _, _, _)
LoopSteps(op, a1, a2, cs) ==
    IF cs = {} THEN {}
    ELSE LET steps == UNION {{<<c, d>> : d \in LoopBody(op, a1, a2, c)} : c \in cs}
         IN  steps \cup LoopSteps(op, a1, a2, Running({s[2] : s \in steps}))

(***************************************************************************)
(* SpecFeed: the operations that call feed, and try_read to leave the      *)
(* buffer partly read.                                                     *)
(***************************************************************************)
InitFeed ==
    InitRead({Src(TextShort, TRUE, FALSE), Src(BytesBad, TRUE, FALSE),
              Src(TextLong, FALSE, TRUE)}, "any")

NextFeedOps ==
    \/ DoTryRead
    \/ DoRead
    \/ DoReadExact
    \/ DoReadUntil
    \/ DoReadUntilLimit
    \/ DoReadToEnd
    \/ DoReadToString
    \/ DoReadLine
    \/ DoFillBuf
    \/ DoEnsureReadable

SpecFeed == InitFeed /\ [][NextFeedOps]_vars

\* The bytes that were resident at the call of feed in the step from c to d:
\* those resident after it but the ones it pulled
ResidentAtFeed(c, d) == Available(d.b) - (d.src.pos - c.src.pos)

\* The arguments the looping operations are called with
LoopCalls ==
    {<<"read_exact", len, 0>> : len \in ReadLens}
    \cup {<<"read_until", byte, 0>> : byte \in Delimiters}
    \cup {<<"read_until_limit", byte, limit>> : byte \in Delimiters, limit \in Limits}
    \cup {<<"read_to_end", 0, 0>>, <<"read_to_string", 0, 0>>, <<"read_line", 0, 0>>}

\* C37: at every call of feed the public operations make, at most 4 bytes
\* are resident, so the source is offered at least S - 4 > 0 bytes of room,
\* and a feed that brings no bytes and no error found the source at its end.
\* In every state, whichever looping operation is called: the feed in front
\* of the loop is made with no byte resident and each feed in the loop with
\* at most 4.  The one feed of read, fill_buf and ensure_readable is made
\* with no byte resident.
C37_FeedHasFreeSpace ==
    /\ [](/\ S - 4 > 0
          /\ \A call \in LoopCalls :
                LET start == LoopStart(call[1], call[2], call[3], Buf, source)
                    steps == LoopSteps(call[1], call[2], call[3], Running(start))
                IN  /\ \A c \in start :
                          c.reads > 0 =>
                             /\ Available(Buf) = 0
                             /\ (c.res # "err" /\ c.src.pos = source.pos) =>
                                   Remaining(source) = 0
                    /\ \A s \in steps :
                          s[2].reads > s[1].reads =>
                             /\ s[2].reads = s[1].reads + 1
                             /\ ResidentAtFeed(s[1], s[2]) <= 4
                             /\ (s[2].res # "err" /\ s[2].src.pos = s[1].src.pos) =>
                                   Remaining(s[1].src) = 0)
    /\ [][(last'.op \in SingleFeedOps /\ last'.reads > 0) =>
             /\ Available(Buf) = 0
             /\ last'.reads = 1
             /\ (last'.res = "ok" /\ source'.pos = source.pos) =>
                   Remaining(source) = 0]_vars

\* read_to_string held back 4 bytes of a source that fills the buffer in
\* one read, and fed with these 4 resident until the source ended.
C37_Witness ==
    /\ last.op = "read_to_string"
    /\ last.reads >= 3
    /\ source.bulk
    /\ Len(source.data) > S
    /\ Remaining(source) = 0
    /\ last.res = "ok"

\* C38: in read_to_string and read_line no scan with next_utf8 indexes a
\* position outside the slice of resident bytes it decodes, whatever the
\* bytes, the chunks and the state of the buffer the operation is called in:
\* no iteration ends in the panic of an index out of bounds (the only panics
\* are those of read_to_string's branch for the end of the stream, which
\* does not use next_utf8).  When read_line finds a newline, it returns Ok if
\* the bytes up to it are well-formed and InvalidData, with nothing appended
\* or consumed, if they are not, as when a multi-byte character is cut short
\* by the newline.
C38_DecodingStaysInBounds ==
    /\ \A op \in {"read_to_string", "read_line"} :
          LET start == LoopStart(op, 0, 0, Buf, source)
              steps == LoopSteps(op, 0, 0, Running(start))
          IN  \A s \in steps :
                 LET c == s[1]
                     d == s[2]
                     run == InternalBuffer(c.b)
                     idx == FirstIndexOf(run, NL)
                     to_push == Slice(run, 0, idx + 1)
                 IN  /\ d.res = "panic" =>
                           /\ op = "read_to_string"
                           /\ d.reads = c.reads + 1
                           /\ d.src = c.src
                           /\ Remaining(c.src) = 0
                     /\ IF op = "read_line" /\ idx >= 0
                        THEN /\ Utf8Scan(to_push, 0, 0).kind # "panic"
                             /\ IF read_utf8(to_push)
                                THEN d.res = "ok" /\ d.out = c.out \o to_push
                                ELSE /\ d.res = "invalid"
                                     /\ d.b = c.b
                                     /\ d.out = c.out
                        ELSE Utf8Scan(run, 0, 4).kind # "panic"
    /\ last.op = "read_line" => last.res # "panic"
    /\ (last.op = "read_to_string" /\ last.res = "panic") => Remaining(source) = 0

\* read_line found the newline behind the first byte of a 2-byte character
\* and returned InvalidData; both bytes are resident.
C38_Witness ==
    /\ last.op = "read_line"
    /\ last.res = "invalid"
    /\ InternalBuffer(Buf) = <<195, NL>>
    /\ last.out = <<>>

(***************************************************************************)
(* SpecPush: flush with the loop of push taken one iteration at a time, on *)
(* sinks that include one whose write returns Ok(0).  phase is where the   *)
(* caller is: "idle", "push" (inside the while loop of push) or "flush"    *)
(* (push returned Ok, before write.flush()).  While a flush is in progress *)
(* w_last.n is `count` and w_last.writes the write calls made so far.      *)
(***************************************************************************)
\* The count of write calls is kept up to this number.
MaxWrites == S + 1

\* Sinks: one that takes nothing (write returns Ok(0), as a full &mut [u8]
\* does), one that takes a byte per call, one that takes SinkChunk bytes or
\* fails.
PushSinks == {Snk(FALSE, 0), Snk(FALSE, 1), Snk(TRUE, SinkChunk)}

InitPush ==
    /\ IdleRead
    /\ InitWrite(PushSinks)
    /\ phase = "idle"
    /\ NoThreads

\* The caller puts bytes into the buffer.
PushFill ==
    /\ phase = "idle"
    /\ DoTryWrite

\* flush(write) is called: push returns at once on an empty buffer.
FlushCall ==
    /\ phase = "idle"
    /\ phase' = IF w_fill_count = 0 THEN "flush" ELSE "push"
    /\ w_last' = [op |-> "flush", len |-> 0, res |-> "run", n |-> 0, taken |-> 0,
                  writes |-> 0, flushes |-> 0, pre_fill_count |-> w_fill_count,
                  pre_resident |-> WInternalBuffer(WBuf),
                  pre_received |-> Len(sink.received)]
    /\ UNCHANGED <<rvars, w_buffer, w_fill_count, sink, accepted, dvars>>

\* One iteration of `while count < self.fill_count`
PushStep ==
    /\ phase = "push"
    /\ \E d \in PushBody(WOutcome(WBuf, sink, "run", w_last.n, 0, w_last.writes, 0)) :
          /\ w_buffer' = d.w.buffer
          /\ w_fill_count' = d.w.fill_count
          /\ sink' = d.snk
          /\ w_last' = [w_last EXCEPT !.n = d.n,
                                      !.writes = Min(d.writes, MaxWrites),
                                      !.res = IF d.res = "err" THEN "err" ELSE "run"]
          /\ phase' = CASE d.res = "run" -> "push"
                        [] d.res = "ok" -> "flush"
                        [] OTHER -> "idle"
    /\ UNCHANGED <<rvars, accepted, dvars>>

\* write.flush(), and the return of flush
SinkFlush ==
    /\ phase = "flush"
    /\ \E ok \in StreamFlush(sink) :
          w_last' = [w_last EXCEPT !.res = IF ok THEN "ok" ELSE "err", !.flushes = 1]
    /\ phase' = "idle"
    /\ UNCHANGED <<rvars, w_buffer, w_fill_count, sink, accepted, dvars>>

NextPush == PushFill \/ FlushCall \/ PushStep \/ SinkFlush

\* Every call of the sink returns and the caller of flush goes on running.
SpecPush ==
    /\ InitPush
    /\ [][NextPush]_vars
    /\ WF_vars(PushStep)
    /\ WF_vars(SinkFlush)

\* C39: a flush that was called returns, and it makes at most one write call
\* for each byte that was resident when it was called, also on a sink whose
\* write returns Ok(0).
C39_FlushTerminates ==
    /\ (phase \in {"push", "flush"}) ~> (phase = "idle")
    /\ [](w_last.op = "flush" => w_last.writes <= w_last.pre_fill_count)

(***************************************************************************)
(* SpecRetry: a caller that reads a stream to its end with read, calling   *)
(* again whenever a call fails, and that may look with fill_buf and        *)
(* ensure_readable in between.  Every read of the source may fail.         *)
(***************************************************************************)
InitRetry ==
    InitRead({Src(data, TRUE, bulk) : data \in {<<>>, RawShort, RawLong},
                                     bulk \in BOOLEAN}, "read")

RetryFillBuf ==
    /\ phase = "read"
    /\ DoFillBuf

RetryEnsureReadable ==
    /\ phase = "read"
    /\ DoEnsureReadable

NextRetry == LoopRead \/ RetryFillBuf \/ RetryEnsureReadable

SpecRetry == InitRetry /\ [][NextRetry]_vars

\* C40: when the stream read of read, fill_buf or ensure_readable fails, the
\* call returns the error and the resident bytes are what they were, in
\* content and order (and nothing was taken from the source or handed to the
\* caller); and when the caller calls again after each failure, the results
\* of the calls of read that succeed, put together, are always a prefix of
\* the source's stream and, once read has returned 0, the whole of it.
C40_ReadIsRetrySafe ==
    /\ [][last'.res = "err" =>
             /\ last'.op \in {"read", "fill_buf", "ensure_readable"}
             /\ last'.reads = 1
             /\ Slice(buffer', read_count', fill_count') = InternalBuffer(Buf)
             /\ source' = source
             /\ delivered' = delivered
             /\ last'.out = <<>>]_vars
    /\ [](/\ Len(delivered) <= Len(source.data)
          /\ delivered = Slice(source.data, 0, Len(delivered))
          /\ delivered \o InternalBuffer(Buf) = Slice(source.data, 0, source.pos)
          /\ phase = "done" => delivered = source.data)

\* A read failed in the middle of a stream longer than the buffer; what the
\* calls before it returned is the stream up to there.
C40_Witness ==
    /\ last.op = "read"
    /\ last.res = "err"
    /\ last.pre_pos > S
    /\ Remaining(source) > 0
    /\ Len(delivered) > S
    /\ delivered = Slice(source.data, 0, source.pos)

====
